---- MODULE Spec2Model ----
(***************************************************************************)
(* A model of the Sub Explorer extension (src/src/tree.ts, the second,     *)
(* current SubExplorerProvider of that file; src/src/extension.ts; the     *)
(* configuration module src/unnamed/part_000).                            *)
(*                                                                         *)
(* Strings are sequences of one-character strings, so that the string      *)
(* operations of the code (startsWith, slice, split, replace) are computed *)
(* on characters as the code computes them.  The platform is POSIX:        *)
(* path.sep is "/".  Times are in milliseconds.                           *)
(***************************************************************************)
EXTENDS Integers, Sequences, FiniteSets, TLC

VARIABLES
    groups,          \* provider.groups: the in-memory group list
    fsys,            \* the file system: workspace-relative path -> "file" | "dir" (absent: no entry)
    displayMode,     \* provider.displayMode: "name" | "fullPath"
    activeGroupId,   \* provider.activeGroupId
    collapseOthersOnActivate,  \* provider.collapseOthersOnActivate
    activeBehaviorEnabled,     \* provider.activeBehaviorEnabled
    dirCache,        \* provider.dirCache: absolute path -> [entries, age], age = Date.now() - ts
    element,         \* the node of the last getChildren call (NoNode: the root call)
    children,        \* what that call returned
    listed,          \* observer: whether the stat or the readDirectory of that call
                     \* rejected, and whether the call wrote to the directory cache
    revealed,        \* observer: the last revealInActiveGroup call of the host: the
                     \* target, the group it started from, the node the walk ended
                     \* at, whether the walk met a segment without a node, and the
                     \* node returned
    resolved,        \* the last findGroupIdForUri call: [uri, prefer, gid]
    watchers,        \* provider.fsWatchers: the roots of the live watchers, in creation order
    inflight,        \* the readDirectory calls of readDirCached that have not resolved yet
    nextLid,         \* the number of the next directory listing (listings are numbered as made)
    refreshTimer,    \* provider.refreshTimer: the time left of the timer it names, or NoTimer
    pendingRefresh,  \* the times left of the armed timers that fire the tree-changed signal
    burst,           \* observer: the current burst of watcher events: the time since its
                     \* last event, its events, the signals since it began, and whether
                     \* only watcher events have armed the timer since it began
    lastGet,         \* observer: the last readDirCached call and the listing that answers it
    anchor,          \* observer: the first readDirCached call of the current 3 s window
    preEvent,        \* observer: the listings that were started before the last watcher event
    doc,             \* the groups written in .vscode/sub-explorer.json
    cmds,            \* the registry commands that have loaded the document and not yet saved
    trip,            \* observer: an addItem of one path and the removeItem that follows it
    failure,         \* observer: the last write of the document that failed: the groups
                     \* of the provider before it, the copy that was to be written, and
                     \* whether the rejection reached the command service
    pair,            \* observer: the commands that have loaded the document since no
                     \* command was under way: the document then, and the mutations
                     \* that have been written since
    suppressSelectionEffects, \* the flag of extension.ts that mutes the selection handler
    edHandlers,      \* the runs of the active-editor handler that have not ended
    selHandlers,     \* the runs of the selection handler that wait to reveal again
    suppressTimers,  \* the times left of the timers that lower the flag
    selections,      \* the nodes selected by a reveal whose selection event is to come
    activeTimers,    \* the times left of the deferred signals of setActiveGroup, in the
                     \* order in which they were armed
    activeSignals,   \* the number of tree-changed signals setActiveGroup and its timers
                     \* have fired
    storedActiveId,  \* workspaceState 'subExplorer.activeGroupId'
    sticky           \* observer: the group active at the start, the files opened so
                     \* far (their number bounds the run), whether every file
                     \* opened so far was under a root of the active group, and
                     \* whether one of them was under a root of another group too
    ,
    lastSet,         \* observer: the last setActiveGroup call of a command: its argument,
                     \* the settings, and the provider before and after it
    uuids,           \* the number of ids uuidv4() has given so far
    lastOp,          \* observer, for the behaviours that start with it switched on:
                     \* the number of commands that have ended, and of the last
                     \* of them: its kind and group, the copy
                     \* it had loaded, the copy it ended with, whether it wrote
                     \* the document, the document before it ended, and the
                     \* document of the initial state
    reloads,         \* the runs of provider.refresh() whose loadConfig has not resolved:
                     \* whether the file has been read, and what was read
    loaded,          \* observer: the last loadConfig call on a given file: the file,
                     \* whether the call raised, and the groups it returned
    disposed,        \* whether provider.dispose() has been called
    lastGroupClick,  \* lastGroupClick of extension.ts: the group of the last click that
                     \* was recorded and the time since (now - time), or NoClick
    clickTimers,     \* the reset timers of the recorded clicks: group and time left
    clickLog,        \* observer: the last two selections of a group node: their groups,
                     \* the time between them, and whether each invoked renameGroup
    switches         \* observer: the current burst of active-group switches: their
                     \* number, the time since the last one, the signals fired before
                     \* the burst began, and whether the burst is all there is to signal

None == "none"

(***************************************************************************)
(* Strings                                                                 *)
(***************************************************************************)
Slash == <<"/">>
Backslash == <<"\\">>

\* String.prototype.startsWith
StartsWith(s, p) ==
    /\ Len(p) <= Len(s)
    /\ SubSeq(s, 1, Len(p)) = p

\* String.prototype.endsWith
EndsWith(s, p) ==
    /\ Len(p) <= Len(s)
    /\ SubSeq(s, Len(s) - Len(p) + 1, Len(s)) = p

\* String.prototype.slice(n)
Slice(s, n) == SubSeq(s, n + 1, Len(s))

\* s.replace(/^\//, '')
StripLeadingSlash(s) == IF s # <<>> /\ Head(s) = "/" THEN Tail(s) ELSE s

\* s.replace(/\\/g, '/')
ReplaceBackslashes(s) == [i \in 1..Len(s) |-> IF s[i] = "\\" THEN "/" ELSE s[i]]

\* s.split('/'): the pieces between the separators, empty pieces kept
RECURSIVE SplitFrom(_, _, _)
SplitFrom(s, i, cur) ==
    IF i > Len(s) THEN <<cur>>
    ELSE IF s[i] = "/" THEN <<cur>> \o SplitFrom(s, i + 1, <<>>)
    ELSE SplitFrom(s, i + 1, Append(cur, s[i]))

Split(s) == SplitFrom(s, 1, <<>>)

\* s.lastIndexOf('/') (0-based, -1 when absent)
RECURSIVE LastIndexOfSlashFrom(_, _)
LastIndexOfSlashFrom(s, i) ==
    IF i = 0 THEN -1
    ELSE IF s[i] = "/" THEN i - 1
    ELSE LastIndexOfSlashFrom(s, i - 1)

LastIndexOfSlash(s) == LastIndexOfSlashFrom(s, Len(s))

\* The rank of a character in the collation order used by localeCompare:
\* its letter, whatever its case
CharRank(c) == CASE c \in {"a", "A"} -> 1 [] c \in {"b", "B"} -> 2 [] OTHER -> 0

\* The rank of the case of a character in that order: lower case first
CaseRank(c) == IF c \in {"A", "B"} THEN 1 ELSE 0

\* a comes before b by its letters alone
RECURSIVE LettersLess(_, _)
LettersLess(a, b) ==
    IF b = <<>> THEN FALSE
    ELSE IF a = <<>> THEN TRUE
    ELSE IF CharRank(Head(a)) # CharRank(Head(b)) THEN CharRank(Head(a)) < CharRank(Head(b))
    ELSE LettersLess(Tail(a), Tail(b))

\* a and b have the same letters and a comes first by the case of the first
\* character in which they differ
RECURSIVE CaseLess(_, _)
CaseLess(a, b) ==
    IF a = <<>> \/ b = <<>> THEN FALSE
    ELSE IF CaseRank(Head(a)) # CaseRank(Head(b)) THEN CaseRank(Head(a)) < CaseRank(Head(b))
    ELSE CaseLess(Tail(a), Tail(b))

\* a.localeCompare(b) < 0 on the names of the model, in the collation of the
\* host's default locale: the letters decide, the case only between names
\* of the same letters
LocaleLess(a, b) == LettersLess(a, b) \/ (~LettersLess(b, a) /\ CaseLess(a, b))

\* The UTF-16 code unit of a character
CodeUnit(c) ==
    CASE c = "A" -> 65 [] c = "B" -> 66 [] c = "a" -> 97 [] c = "b" -> 98 [] OTHER -> 0

\* a < b as strings: the order by code units, every upper case letter before
\* every lower case one
RECURSIVE CodeUnitLess(_, _)
CodeUnitLess(a, b) ==
    IF b = <<>> THEN FALSE
    ELSE IF a = <<>> THEN TRUE
    ELSE IF CodeUnit(Head(a)) # CodeUnit(Head(b)) THEN CodeUnit(Head(a)) < CodeUnit(Head(b))
    ELSE CodeUnitLess(Tail(a), Tail(b))

(***************************************************************************)
(* Paths                                                                   *)
(***************************************************************************)
\* workspaceFolders[0].uri.fsPath
WsRoot == <<"/", "w">>

\* path.join(a, b), for b a relative path without empty, "." or ".." segments
PathJoin(a, b) == IF b = <<>> THEN a ELSE a \o Slash \o b

\* path.relative(from, to), for to equal to or below from
PathRelative(from, to) ==
    IF to = from THEN <<>>
    ELSE IF StartsWith(to, from \o Slash) THEN Slice(to, Len(from) + 1)
    ELSE to

\* path.basename(p)
Basename(p) == LET parts == Split(p) IN parts[Len(parts)]

NormalizeRel(p) == ReplaceBackslashes(p)

ToFsUri(rel) == PathJoin(WsRoot, rel)

ToRelPath(uri) == NormalizeRel(PathRelative(WsRoot, uri))

MakeRelFromUri(uri) == ReplaceBackslashes(PathRelative(WsRoot, uri))

(***************************************************************************)
(* The universe of the model: the workspace-relative paths that may exist  *)
(* on disk and that groups may declare as roots.                           *)
(***************************************************************************)
RelPaths ==
    { <<"a">>, <<"b">>, <<"a", "b">>,
      <<"a", "/", "a">>, <<"a", "/", "b">> }

GroupIds == {"g1", "g2"}

\* The number of roots that the groups of an initial state declare together
MaxRoots == 3

\* The parent directory of a relative path (the empty path: the workspace)
ParentRel(rel) ==
    LET idx == LastIndexOfSlash(rel)
    IN IF idx < 0 THEN <<>> ELSE SubSeq(rel, 1, idx)

\* A file system: every entry's parent is the workspace or a directory
FileSystems ==
    { f \in [RelPaths -> {None, "file", "dir"}] :
        \A p \in RelPaths :
            (f[p] # None /\ ParentRel(p) # <<>>) => f[ParentRel(p)] = "dir" }

\* vscode.workspace.fs.stat(uri): "file", "dir", or None when it rejects
Stat(uri) ==
    LET rel == PathRelative(WsRoot, uri)
    IN IF rel \in RelPaths THEN fsys[rel] ELSE None

\* The names and kinds vscode.workspace.fs.readDirectory(uri) resolves with
DirEntries(uri) ==
    LET rel == PathRelative(WsRoot, uri)
    IN { <<Basename(p), fsys[p]>> : p \in { q \in RelPaths : ParentRel(q) = rel /\ fsys[q] # None } }

RECURSIVE SetToSeq(_)
SetToSeq(S) ==
    IF S = {} THEN <<>>
    ELSE LET x == CHOOSE y \in S : TRUE IN <<x>> \o SetToSeq(S \ {x})

\* readDirectory: entries in the order the file system gives them
ReadDirectory(uri) == SetToSeq(DirEntries(uri))

(***************************************************************************)
(* The directory cache.  An entry is [entries, age]: age is Date.now() - ts *)
(* and grows as time passes.                                               *)
(***************************************************************************)
CacheTtl == 3000

\* A listing is the array readDirectory resolved with; lid tells one array
\* object from another
Listing(lid, entries) == [lid |-> lid, entries |-> entries]

NoCache == [entries |-> <<>>, lid |-> 0, age |-> -1]

CacheGet(cache, key) == IF key \in DOMAIN cache THEN cache[key] ELSE NoCache

CachePut(cache, key, listing, age) ==
    [k \in DOMAIN cache \cup {key} |->
        IF k = key THEN [entries |-> listing.entries, lid |-> listing.lid, age |-> age]
        ELSE cache[k]]

EmptyCache == [k \in {} |-> NoCache]

\* The test of readDirCached: cached && (now - cached.ts) < 3000
CacheHit(cache, key) == key \in DOMAIN cache /\ cache[key].age < CacheTtl

\* readDirCached run to its end without another task in between:
\* [ok, entries, cache]; ok is FALSE when readDirectory rejects
ReadDirCached(cache, uri) ==
    IF CacheHit(cache, uri)
    THEN [ok |-> TRUE, entries |-> cache[uri].entries, cache |-> cache]
    ELSE IF Stat(uri) # "dir"
    THEN [ok |-> FALSE, entries |-> <<>>, cache |-> cache]
    ELSE LET entries == ReadDirectory(uri)
         IN [ok |-> TRUE, entries |-> entries,
             cache |-> CachePut(cache, uri, Listing(0, entries), 0)]

(***************************************************************************)
(* Tree nodes (class SubExplorerNode)                                      *)
(***************************************************************************)
\* An absent resourceUri or rootRel (undefined) is the empty string: no node
\* of the program carries an empty path
NoUri == <<>>

SubExplorerNode(type, labelText, resourceUri, collapsibleState, contextValue, groupId, rootRel, isTerminal, id) ==
    [type |-> type, label |-> labelText, resourceUri |-> resourceUri,
     collapsibleState |-> collapsibleState, contextValue |-> contextValue,
     groupId |-> groupId, rootRel |-> rootRel, isTerminal |-> isTerminal, id |-> id]

\* No element: the argument of the root call of getChildren
NoNode == SubExplorerNode(None, <<>>, NoUri, "None", None, None, NoUri, FALSE, <<>>)

\* A group (GroupConfig) is [id, items]; the name and the git binding of a
\* group play no part in the operations modelled here
Group(id, items) == [id |-> id, items |-> items]

NoGroup == Group(None, <<>>)

\* this.groups.find(g => g.id === id): the first group with that id, or NoGroup
RECURSIVE FindGroupIn(_, _)
FindGroupIn(gs, id) ==
    IF gs = <<>> THEN NoGroup
    ELSE IF Head(gs).id = id THEN Head(gs)
    ELSE FindGroupIn(Tail(gs), id)

FindGroup(id) == FindGroupIn(groups, id)

\* The ids of the groups of a list
GroupIdsOf(gs) == {gs[i].id : i \in 1..Len(gs)}

\* An array that is left in the order in which it was filled
SortByLabel_Unsorted(nodes) == nodes

\* Array.prototype.sort with (a, b) => a.label.localeCompare(b.label): stable
RECURSIVE InsertByLabel(_, _)
InsertByLabel(sorted, n) ==
    IF sorted = <<>> THEN <<n>>
    ELSE IF LocaleLess(n.label, Head(sorted).label) THEN <<n>> \o sorted
    ELSE <<Head(sorted)>> \o InsertByLabel(Tail(sorted), n)

RECURSIVE SortByLabel(_)
SortByLabel(nodes) ==
    IF nodes = <<>> THEN <<>>
    ELSE InsertByLabel(SortByLabel(SubSeq(nodes, 1, Len(nodes) - 1)), nodes[Len(nodes)])

(***************************************************************************)
(* getChildren of the root: one node per group                             *)
(***************************************************************************)
GroupNode(g) ==
    LET isActive == activeBehaviorEnabled /\ activeGroupId = g.id
        collapsible ==
            IF activeBehaviorEnabled /\ collapseOthersOnActivate /\ activeGroupId # None
            THEN (IF isActive THEN "Expanded" ELSE "Collapsed")
            ELSE "Expanded"
    IN SubExplorerNode("group", <<g.id>>, NoUri, collapsible,
                       IF isActive THEN "groupActive" ELSE "group",
                       g.id, NoUri, FALSE, <<"group", g.id>>)

RootChildren == [i \in 1..Len(groups) |-> GroupNode(groups[i])]

(***************************************************************************)
(* Flat ('name') mode: the loop over group.items of getChildren            *)
(***************************************************************************)
ItemNode(group, rel) ==
    LET uri == ToFsUri(rel)
        isDir == Stat(uri) = "dir"
    IN SubExplorerNode("item", Basename(uri), uri,
                       IF isDir THEN "Collapsed" ELSE "None",
                       "item", group.id, rel, TRUE, <<"item", group.id, rel>>)

\* One iteration: the node is pushed unless stat rejected
FlatStep(nodes, group, rel) ==
    IF Stat(ToFsUri(rel)) = None THEN nodes
    ELSE Append(nodes, ItemNode(group, rel))

RECURSIVE FlatLoop(_, _, _)
FlatLoop(group, items, nodes) ==
    IF items = <<>> THEN nodes
    ELSE FlatLoop(group, Tail(items), FlatStep(nodes, group, Head(items)))

\* A variant that sorts the items by label, as the other lists are
FlatChildren_Sorted(group) == SortByLabel(FlatLoop(group, group.items, <<>>))

FlatChildren(group) == FlatLoop(group, group.items, <<>>)

(***************************************************************************)
(* Hierarchical ('fullPath') mode: buildPathChildren                       *)
(***************************************************************************)
\* The Map `seen`, as the sequence of its entries in insertion order
RECURSIVE SeenIndex(_, _, _)
SeenIndex(seen, name, i) ==
    IF i > Len(seen) THEN 0
    ELSE IF seen[i].name = name THEN i
    ELSE SeenIndex(seen, name, i + 1)

\* A variant in which the first root seen decides the terminal flag
SeenMerge_FirstWins(seen, firstSeg, segRel, isTerminal) ==
    LET k == SeenIndex(seen, firstSeg, 1)
    IN IF k = 0
       THEN Append(seen, [name |-> firstSeg, fullRel |-> segRel, isTerminal |-> isTerminal])
       ELSE seen

\* seen.get / seen.set / prev.isTerminal = prev.isTerminal || isTerminal
SeenMerge(seen, firstSeg, segRel, isTerminal) ==
    LET k == SeenIndex(seen, firstSeg, 1)
    IN IF k = 0
       THEN Append(seen, [name |-> firstSeg, fullRel |-> segRel, isTerminal |-> isTerminal])
       ELSE [seen EXCEPT ![k].isTerminal = seen[k].isTerminal \/ isTerminal]

\* A variant that matches the prefix as a string, not at a segment boundary
SeenStep_StringPrefix(seen, prefix, rel) ==
    IF prefix # <<>> /\ ~StartsWith(rel, prefix) THEN seen
    ELSE LET rest == IF prefix # <<>> THEN StripLeadingSlash(Slice(rel, Len(prefix))) ELSE rel
             firstSeg == Split(rest)[1]
             segRel == IF prefix # <<>> THEN prefix \o Slash \o firstSeg ELSE firstSeg
         IN IF firstSeg = <<>> THEN seen
            ELSE SeenMerge(seen, firstSeg, segRel, rel = segRel)

\* One iteration of the first loop of buildPathChildren
SeenStep(seen, prefix, rel) ==
    IF prefix # <<>> /\ ~(rel = prefix \/ StartsWith(rel, prefix \o Slash)) THEN seen
    ELSE LET rest == IF prefix # <<>> THEN StripLeadingSlash(Slice(rel, Len(prefix))) ELSE rel
             firstSeg == Split(rest)[1]
             segRel == IF prefix # <<>> THEN prefix \o Slash \o firstSeg ELSE firstSeg
         IN IF firstSeg = <<>> THEN seen
            ELSE SeenMerge(seen, firstSeg, segRel, rel = segRel)

RECURSIVE SeenLoop(_, _, _)
SeenLoop(items, prefix, seen) ==
    IF items = <<>> THEN seen
    ELSE SeenLoop(Tail(items), prefix, SeenStep(seen, prefix, Head(items)))

PathNode(group, e, kind) ==
    SubExplorerNode("path", e.name, ToFsUri(e.fullRel),
                    IF ~e.isTerminal \/ kind = "dir" THEN "Collapsed" ELSE "None",
                    IF e.isTerminal THEN "item" ELSE "fs",
                    group.id, e.fullRel, e.isTerminal, <<"path", group.id, e.fullRel>>)

\* An iteration that pushes the node of a terminal segment without its stat
PathStep_NoStat(nodes, group, e) ==
    Append(nodes, PathNode(group, e, Stat(ToFsUri(e.fullRel))))

\* One iteration of the second loop: a terminal segment is stat'd and
\* dropped when stat rejects; a non-terminal segment is not stat'd
PathStep(nodes, group, e) ==
    LET kind == Stat(ToFsUri(e.fullRel))
    IN IF e.isTerminal /\ kind = None THEN nodes
       ELSE Append(nodes, PathNode(group, e, kind))

RECURSIVE PathLoop(_, _, _)
PathLoop(group, seen, nodes) ==
    IF seen = <<>> THEN nodes
    ELSE PathLoop(group, Tail(seen), PathStep(nodes, group, Head(seen)))

BuildPathChildren(group, prefixRel) ==
    LET prefix == IF prefixRel # <<>> THEN ReplaceBackslashes(prefixRel) ELSE <<>>
        seen == SeenLoop(group.items, prefix, <<>>)
    IN SortByLabel(PathLoop(group, seen, <<>>))

(***************************************************************************)
(* listFsChildren                                                          *)
(***************************************************************************)
\* findRootRel: the longest root of the group the path starts with
RECURSIVE FindRootRelLoop(_, _, _)
FindRootRelLoop(items, uriFs, best) ==
    IF items = <<>> THEN best
    ELSE LET rel == Head(items)
             better == StartsWith(uriFs, PathJoin(WsRoot, rel))
                       /\ (best = NoUri \/ Len(rel) > Len(best))
         IN FindRootRelLoop(Tail(items), uriFs, IF better THEN rel ELSE best)

FindRootRel(groupId, uri) ==
    LET group == FindGroup(groupId)
    IN IF groupId = None \/ group.id = None THEN NoUri
       ELSE FindRootRelLoop(group.items, uri, NoUri)

FsNode(el, rootRel, entry) ==
    LET childUri == PathJoin(el.resourceUri, entry[1])
    IN SubExplorerNode("fs", entry[1], childUri,
                       IF entry[2] = "dir" THEN "Collapsed" ELSE "None",
                       "fs", el.groupId, rootRel, FALSE,
                       <<"fs", el.groupId, MakeRelFromUri(childUri)>>)

\* The children built from the entries readDirCached returned
ListFsChildren(el, entries) ==
    LET rootRel == IF el.rootRel # NoUri THEN el.rootRel
                   ELSE FindRootRel(el.groupId, el.resourceUri)
    IN SortByLabel([i \in 1..Len(entries) |-> FsNode(el, rootRel, entries[i])])

(***************************************************************************)
(* getChildren(element), run to its end: [nodes, cache]                    *)
(***************************************************************************)
\* A listing that stores an empty entry when readDirectory rejects
Listed_StoreFailure(el, cache) ==
    LET r == ReadDirCached(cache, el.resourceUri)
    IN IF r.ok THEN [nodes |-> ListFsChildren(el, r.entries), cache |-> r.cache]
       ELSE [nodes |-> <<>>, cache |-> CachePut(cache, el.resourceUri, Listing(0, <<>>), 0)]

Listed(el, cache) ==
    LET r == ReadDirCached(cache, el.resourceUri)
    IN IF r.ok THEN [nodes |-> ListFsChildren(el, r.entries), cache |-> r.cache]
       ELSE [nodes |-> <<>>, cache |-> cache]

\* A getChildren that merges the roots below a terminal path node as it does
\* below the others
GetChildren_MergeBelowTerminal(el, cache) ==
    LET group == FindGroup(el.groupId)
        same(nodes) == [nodes |-> nodes, cache |-> cache]
    IN CASE el.type = None -> same(RootChildren)
         [] el.type = "group" ->
                IF group.id = None THEN same(<<>>)
                ELSE IF displayMode = "fullPath" THEN same(BuildPathChildren(group, NoUri))
                ELSE same(FlatChildren(group))
         [] el.type = "path" ->
                IF group.id = None THEN same(<<>>)
                ELSE same(BuildPathChildren(group, MakeRelFromUri(el.resourceUri)))
         [] el.type \in {"item", "fs"} ->
                IF el.resourceUri = NoUri THEN same(<<>>) ELSE Listed(el, cache)
         [] OTHER -> same(<<>>)

GetChildren(el, cache) ==
    LET group == FindGroup(el.groupId)
        same(nodes) == [nodes |-> nodes, cache |-> cache]
    IN CASE el.type = None -> same(RootChildren)
         [] el.type = "group" ->
                IF group.id = None THEN same(<<>>)
                ELSE IF displayMode = "fullPath" THEN same(BuildPathChildren(group, NoUri))
                ELSE same(FlatChildren(group))
         [] el.type = "path" ->
                IF group.id = None THEN same(<<>>)
                ELSE IF el.isTerminal
                     THEN (IF el.resourceUri = NoUri \/ Stat(el.resourceUri) # "dir"
                           THEN same(<<>>)
                           ELSE Listed(el, cache))
                     ELSE same(BuildPathChildren(group, MakeRelFromUri(el.resourceUri)))
         [] el.type \in {"item", "fs"} ->
                IF el.resourceUri = NoUri THEN same(<<>>) ELSE Listed(el, cache)
         [] OTHER -> same(<<>>)

(***************************************************************************)
(* findGroupIdForUri                                                       *)
(***************************************************************************)
\* A variant that tests the string prefix only, as findRootRel does
RootMatches_StringPrefix(target, rel) == StartsWith(target, PathJoin(WsRoot, rel))

\* The test of the inner loop: the target is the root or lies below it
RootMatches(target, rel) ==
    LET rootFs == PathJoin(WsRoot, rel)
    IN target = rootFs \/ StartsWith(target, rootFs \o Slash)

\* The candidates of one group, in the order of its items
RECURSIVE GroupCandidates(_, _, _)
GroupCandidates(g, items, target) ==
    IF items = <<>> THEN <<>>
    ELSE (IF RootMatches(target, Head(items))
          THEN <<[gid |-> g.id, len |-> Len(PathJoin(WsRoot, Head(items))), rel |-> Head(items)]>>
          ELSE <<>>)
         \o GroupCandidates(g, Tail(items), target)

\* The candidates of all groups, in the order of the group list
RECURSIVE Candidates(_, _)
Candidates(gs, target) ==
    IF gs = <<>> THEN <<>>
    ELSE GroupCandidates(Head(gs), Head(gs).items, target) \o Candidates(Tail(gs), target)

\* candidates.sort((a, b) => b.len - a.len): stable, longest first
RECURSIVE InsertByLen(_, _)
InsertByLen(sorted, c) ==
    IF sorted = <<>> THEN <<c>>
    ELSE IF Head(sorted).len - c.len < 0 THEN <<c>> \o sorted
    ELSE <<Head(sorted)>> \o InsertByLen(Tail(sorted), c)

RECURSIVE SortByLen(_)
SortByLen(cs) ==
    IF cs = <<>> THEN <<>>
    ELSE InsertByLen(SortByLen(SubSeq(cs, 1, Len(cs) - 1)), cs[Len(cs)])

\* A variant without the preference for the active group
ChooseCandidate_LongestOnly(candidates, preferGroupId) ==
    IF candidates = <<>> THEN None ELSE SortByLen(candidates)[1].gid

\* The choice among the candidates (lines 560-571)
ChooseCandidate(candidates, preferGroupId) ==
    IF candidates = <<>> THEN None
    ELSE IF preferGroupId # None /\ \E i \in 1..Len(candidates) : candidates[i].gid = preferGroupId
    THEN preferGroupId
    ELSE SortByLen(candidates)[1].gid

FindGroupIdForUri(gs, uri, preferGroupId) ==
    ChooseCandidate(Candidates(gs, uri), preferGroupId)

(***************************************************************************)
(* Initial values                                                          *)
(***************************************************************************)
Range(seq) == {seq[i] : i \in 1..Len(seq)}

\* Root lists without duplicates, as addItem builds them
RECURSIVE ItemListsOfLen(_)
ItemListsOfLen(n) ==
    IF n = 0 THEN {<<>>}
    ELSE UNION {{Append(l, r) : r \in RelPaths \ Range(l)} : l \in ItemListsOfLen(n - 1)}

ItemLists == UNION {ItemListsOfLen(n) : n \in 0..MaxRoots}

\* Group lists for the tree view: group g1, alone or followed by a group g2
\* that declares at most one root
GroupLists ==
    {<<Group("g1", l)>> : l \in ItemLists}
    \cup {<<Group("g1", ll[1]), Group("g2", ll[2])>> :
            ll \in {x \in ItemLists \X (ItemListsOfLen(0) \cup ItemListsOfLen(1)) :
                       Len(x[1]) + Len(x[2]) <= MaxRoots}}

settingVars == <<displayMode, collapseOthersOnActivate, activeBehaviorEnabled>>
treeVars == <<element, children, listed, revealed>>

watchVars == <<watchers, inflight, nextLid, refreshTimer, pendingRefresh>>
watchObs == <<burst, lastGet, anchor, preEvent>>

registryVars == <<doc, cmds, trip, failure, pair, uuids, lastOp>>

editorVars == <<suppressSelectionEffects, edHandlers, selHandlers, suppressTimers,
                selections, activeTimers, activeSignals, storedActiveId, sticky>>

activeObs == <<lastSet, switches>>

docVars == <<reloads, loaded, disposed>>

clickVars == <<lastGroupClick, clickTimers, clickLog>>

vars == <<groups, fsys, settingVars, activeGroupId, dirCache, treeVars, resolved, docVars, clickVars,
          watchVars, watchObs, registryVars, editorVars, activeObs>>

\* What the actions of one part of the program leave alone in the other parts
notTree == <<resolved, docVars, clickVars, watchVars, watchObs, registryVars, editorVars, activeObs>>
notResolve == <<dirCache, treeVars, docVars, clickVars, watchVars, watchObs, registryVars, editorVars, activeObs>>
notWatch == <<treeVars, resolved, docVars, clickVars, registryVars, editorVars, activeObs>>
notRegistry == <<treeVars, resolved, docVars, clickVars, watchObs, editorVars, activeObs>>
notEditor == <<treeVars, resolved, docVars, clickVars, watchVars, watchObs, registryVars, activeObs>>

NoResolved == [uri |-> <<>>, prefer |-> None, gid |-> None, called |-> FALSE]

\* The parts of the state a behaviour leaves untouched when it does not use them
NoListed == [fails |-> FALSE, stored |-> FALSE]
NoRevealed == [called |-> FALSE, uri |-> <<>>, gid |-> None, last |-> NoNode,
               stopped |-> FALSE, leaf |-> NoNode]

TreeIdle ==
    element = NoNode /\ children = <<>> /\ listed = NoListed /\ revealed = NoRevealed
ResolveIdle == resolved = NoResolved

NoTimer == [state |-> "undefined", left |-> 0]
NoBurst == [since |-> -1, events |-> 0, signals |-> 0, pure |-> TRUE]
NoGet == [uri |-> <<>>, lid |-> 0, hit |-> FALSE, stale |-> FALSE,
          inWindow |-> FALSE, expectLid |-> 0, called |-> FALSE]
NoAnchor == [uri |-> <<>>, lid |-> 0, elapsed |-> 0, valid |-> FALSE]

WatchIdle ==
    /\ inflight = {}
    /\ nextLid = 1
    /\ refreshTimer = NoTimer
    /\ pendingRefresh = {}
    /\ burst = NoBurst
    /\ lastGet = NoGet
    /\ anchor = NoAnchor
    /\ preEvent = {}

NoTrip == [stage |-> "none", gid |-> None, uri |-> <<>>, before |-> <<>>]

NoFailure == [happened |-> FALSE, surfaced |-> TRUE, before |-> <<>>, cfg |-> <<>>]
NoPair == [n |-> 0, doc0 |-> <<>>, ops |-> <<>>, valid |-> FALSE]

NoFile == [state |-> "missing", text |-> <<>>, partial |-> FALSE]
NoLoaded == [called |-> FALSE, file |-> NoFile, raised |-> FALSE, groups |-> <<>>]

NoOp == [on |-> FALSE, n |-> 0, kind |-> None, gid |-> None, arg |-> <<>>, before |-> <<>>,
         after |-> <<>>, wrote |-> FALSE, docBefore |-> <<>>, doc0 |-> <<>>]

DocIdle == loaded = NoLoaded /\ reloads = <<>> /\ uuids = 0 /\ disposed = FALSE

\* No command has loaded the document; the provider holds its groups
NoCommands ==
    /\ doc = groups /\ cmds = <<>> /\ trip = NoTrip /\ failure = NoFailure /\ pair = NoPair
    /\ DocIdle

RegistryIdle == NoCommands /\ lastOp = NoOp

NoClick == [id |-> None, age |-> 0]
NoClicks == [n |-> 0, id |-> None, since |-> 0, prevId |-> None, gap |-> 0,
             renamed |-> FALSE, prevRenamed |-> FALSE]

\* No group node has been clicked
ClickIdle == lastGroupClick = NoClick /\ clickTimers = {} /\ clickLog = NoClicks

EditorIdle ==
    /\ ClickIdle
    /\ suppressSelectionEffects = FALSE
    /\ edHandlers = <<>>
    /\ selHandlers = <<>>
    /\ suppressTimers = {}
    /\ selections = {}
    /\ activeTimers = <<>>
    /\ activeSignals = 0
    /\ storedActiveId = activeGroupId
    /\ sticky = [g |-> activeGroupId, events |-> 0, ok |-> TRUE, both |-> FALSE]

NoSnapshot == [active |-> None, stored |-> None, signals |-> 0, timers |-> <<>>]
NoSet == [called |-> FALSE, id |-> None, enabled |-> TRUE, collapse |-> FALSE,
          before |-> NoSnapshot, after |-> NoSnapshot]
NoSwitches == [n |-> 0, since |-> -1, base |-> 0, alone |-> TRUE]

ActiveIdle == lastSet = NoSet /\ switches = NoSwitches

\* resetFsWatchers: one watcher per root of every group, in order
RECURSIVE RootsOf(_)
RootsOf(gs) == IF gs = <<>> THEN <<>> ELSE Head(gs).items \o RootsOf(Tail(gs))

(***************************************************************************)
(* The tree view: the host calls getChildren for the root and then for     *)
(* nodes it was given.  The file system and the group list stay as they    *)
(* are while the tree is expanded.                                         *)
(***************************************************************************)
InitTree ==
    /\ groups \in GroupLists
    /\ fsys \in FileSystems
    /\ displayMode \in {"name", "fullPath"}
    /\ activeGroupId = None
    /\ collapseOthersOnActivate = FALSE
    /\ activeBehaviorEnabled = TRUE
    /\ dirCache = EmptyCache
    /\ TreeIdle
    /\ ResolveIdle
    /\ watchers = RootsOf(groups)
    /\ WatchIdle
    /\ RegistryIdle
    /\ EditorIdle
    /\ ActiveIdle

\* The stat or the readDirectory that getChildren(el) calls rejects: the stat
\* of a terminal path node whose path is gone, the readDirectory of what is
\* not a directory and is not answered from the cache
CallFails(el, cache) ==
    CASE el.type = "path" ->
            el.isTerminal /\ el.resourceUri # NoUri /\ FindGroup(el.groupId) # NoGroup
            /\ Stat(el.resourceUri) = None
      [] el.type \in {"item", "fs"} ->
            el.resourceUri # NoUri /\ ~CacheHit(cache, el.resourceUri)
            /\ Stat(el.resourceUri) # "dir"
      [] OTHER -> FALSE

TreeGetChildren(el) ==
    LET r == GetChildren(el, dirCache)
    IN /\ element' = el
       /\ children' = r.nodes
       /\ dirCache' = r.cache
       /\ listed' = [fails |-> CallFails(el, dirCache),
                     stored |-> r.cache # dirCache]
       /\ UNCHANGED <<groups, fsys, settingVars, activeGroupId, notTree, revealed>>

NextTree ==
    \/ TreeGetChildren(NoNode)
    \/ \E i \in 1..Len(children) : TreeGetChildren(children[i])

SpecTree == InitTree /\ [][NextTree]_vars

(***************************************************************************)
(* SpecSort: the tree view over roots and directory entries whose names    *)
(* differ in case                                                          *)
(***************************************************************************)
\* The roots a group may declare: two that exist, and three below
\* directories that are not on the disk
SortRoots ==
    { <<"a">>, <<"b">>, <<"A", "/", "a">>, <<"B", "/", "a">>, <<"a", "B", "/", "a">> }

\* The number of roots of the group, and of entries of the listing
MaxSiblings == 3

RECURSIVE SeqsOfLen(_, _)
SeqsOfLen(S, n) ==
    IF n = 0 THEN {<<>>}
    ELSE UNION {{Append(l, x) : x \in S \ Range(l)} : l \in SeqsOfLen(S, n - 1)}

SortGroupLists ==
    {<<Group("g1", l)>> : l \in SeqsOfLen(SortRoots, 2) \cup SeqsOfLen(SortRoots, MaxSiblings)}

\* The names of the entries of a listing
SortNames == { <<"a">>, <<"A">>, <<"b">>, <<"B">> }

\* The listings of directory a that the cache may hold: what readDirectory
\* gave less than three seconds ago, in the order it gave it
SortCaches ==
    {CachePut(EmptyCache, ToFsUri(<<"a">>),
              Listing(0, [i \in 1..Len(l) |-> <<l[i], "file">>]), 0) :
        l \in SeqsOfLen(SortNames, MaxSiblings)}

SortInitFs ==
    [p \in RelPaths |->
        CASE p = <<"a">> -> "dir"
          [] p \in {<<"a", "/", "a">>, <<"a", "/", "b">>, <<"b">>} -> "file"
          [] OTHER -> None]

InitSort ==
    /\ groups \in SortGroupLists
    /\ fsys = SortInitFs
    /\ displayMode \in {"name", "fullPath"}
    /\ activeGroupId = None
    /\ collapseOthersOnActivate = FALSE
    /\ activeBehaviorEnabled = TRUE
    /\ dirCache \in SortCaches
    /\ TreeIdle
    /\ ResolveIdle
    /\ watchers = RootsOf(groups)
    /\ WatchIdle
    /\ RegistryIdle
    /\ EditorIdle
    /\ ActiveIdle

SpecSort == InitSort /\ [][NextTree]_vars

(***************************************************************************)
(* The resolver: findGroupIdForUri is called for a path and a preferred    *)
(* group on a fixed group list.  It reads no file.                         *)
(***************************************************************************)
\* The paths asked about: the workspace, the roots, and paths below roots
TargetUris ==
    {WsRoot} \cup {ToFsUri(r) : r \in RelPaths}
    \cup {ToFsUri(r \o Slash \o n) : r \in RelPaths, n \in {<<"a">>, <<"a", "b">>}}

\* Group lists for the resolver: two groups
ResolverGroupLists ==
    {<<Group("g1", ll[1]), Group("g2", ll[2])>> :
        ll \in {x \in ItemLists \X ItemLists : Len(x[1]) + Len(x[2]) <= MaxRoots}}

InitResolve ==
    /\ groups \in ResolverGroupLists
    /\ fsys = [p \in RelPaths |-> None]
    /\ displayMode = "name"
    /\ activeGroupId = None
    /\ collapseOthersOnActivate = FALSE
    /\ activeBehaviorEnabled = TRUE
    /\ dirCache = EmptyCache
    /\ TreeIdle
    /\ ResolveIdle
    /\ watchers = RootsOf(groups)
    /\ WatchIdle
    /\ RegistryIdle
    /\ EditorIdle
    /\ ActiveIdle

ResolveCall(uri, prefer) ==
    /\ resolved' = [uri |-> uri, prefer |-> prefer,
                    gid |-> FindGroupIdForUri(groups, uri, prefer), called |-> TRUE]
    /\ UNCHANGED <<groups, fsys, settingVars, activeGroupId, notResolve>>

NextResolve ==
    \E uri \in TargetUris, prefer \in GroupIds \cup {None} : ResolveCall(uri, prefer)

SpecResolve == InitResolve /\ [][NextResolve]_vars

(***************************************************************************)
(* What the claims speak of, in terms of path segments                     *)
(***************************************************************************)
Segs(rel) == IF rel = <<>> THEN <<>> ELSE Split(rel)

\* p is a prefix of q, segment by segment
SegPrefix(p, q) == Len(p) <= Len(q) /\ SubSeq(q, 1, Len(p)) = p

\* The roots of the group that lie strictly below the prefix
RootsBelow(group, prefix) ==
    {r \in Range(group.items) :
        SegPrefix(Segs(prefix), Segs(r)) /\ Len(Segs(r)) > Len(Segs(prefix))}

\* The distinct first segments that remain after stripping the prefix
FirstSegments(group, prefix) ==
    {Segs(r)[Len(Segs(prefix)) + 1] : r \in RootsBelow(group, prefix)}

Exists(rel) == rel \in RelPaths /\ fsys[rel] # None

\* The group the element of the last call belongs to
ElementGroup == groups[CHOOSE i \in 1..Len(groups) : groups[i].id = element.groupId]

\* The last call asked for the children of a group in flat mode
FlatGroupCall == element.type = "group" /\ displayMode = "name"

\* The last call was answered by buildPathChildren, for this prefix
PathCall ==
    /\ displayMode = "fullPath"
    /\ \/ element.type = "group"
       \/ element.type = "path" /\ ~element.isTerminal

PathCallPrefix == IF element.type = "group" THEN <<>> ELSE element.rootRel

Labels(nodes) == {nodes[i].label : i \in 1..Len(nodes)}

\* The (group, root) pairs whose root is the path or an ancestor of it
Owns(rel, uri) == SegPrefix(Split(WsRoot \o Slash \o rel), Split(uri))

Matches(uri) ==
    {<<i, r>> \in (1..Len(groups)) \X RelPaths :
        r \in Range(groups[i].items) /\ Owns(r, uri)}

MatchingGroupIds(uri) == {groups[m[1]].id : m \in Matches(uri)}

AbsLength(rel) == Len(WsRoot) + 1 + Len(rel)

(***************************************************************************)
(* Timers.  A timer is known by the time it has left; refreshTimer is the  *)
(* handle the provider keeps: undefined, or a timer that is armed or has   *)
(* fired.  Time is counted in milliseconds.                                *)
(***************************************************************************)
DebounceDelay == 150

ArmedTimer(left) == [state |-> "armed", left |-> left]
FiredTimer == [state |-> "fired", left |-> 0]

\* clearTimeout(handle): a handle that is undefined or has fired clears nothing
ClearTimeout(pending, handle) ==
    IF handle.state = "armed" THEN pending \ {handle.left} ELSE pending

\* fireRefreshDebounced without the clearTimeout of the timer armed before
FireRefreshDebounced_NoClear(pending, handle) ==
    [pending |-> pending \cup {DebounceDelay}, handle |-> ArmedTimer(DebounceDelay)]

\* A fireRefreshDebounced that clears the armed timer and arms none in its place
FireRefreshDebounced_CancelOnly(pending, handle) ==
    IF handle.state = "armed"
    THEN [pending |-> ClearTimeout(pending, handle), handle |-> NoTimer]
    ELSE [pending |-> pending \cup {DebounceDelay}, handle |-> ArmedTimer(DebounceDelay)]

\* fireRefreshDebounced: [pending, handle] after the call
FireRefreshDebounced(pending, handle) ==
    [pending |-> ClearTimeout(pending, handle) \cup {DebounceDelay},
     handle |-> ArmedTimer(DebounceDelay)]

\* The watcher whose pattern is rel/** reports the paths below rel
WatcherMatches(rel, path) == StartsWith(path, rel \o Slash)

RECURSIVE MatchingWatchers(_, _)
MatchingWatchers(ws, path) ==
    IF ws = <<>> THEN 0
    ELSE (IF WatcherMatches(Head(ws), path) THEN 1 ELSE 0) + MatchingWatchers(Tail(ws), path)

\* onChange run n times, once by each watcher that reports the event:
\* dirCache.clear(); fireRefreshDebounced()
RECURSIVE OnChange(_, _)
OnChange(n, st) ==
    IF n = 0 THEN st
    ELSE LET t == FireRefreshDebounced(st.pending, st.handle)
         IN OnChange(n - 1, [cache |-> EmptyCache, pending |-> t.pending, handle |-> t.handle])

Min(a, b) == IF a < b THEN a ELSE b

\* What an event on disk does to the entry at rel
FsApply(fs, rel, kind) ==
    [fs EXCEPT ![rel] = CASE kind = "createFile" -> "file"
                          [] kind = "createDir" -> "dir"
                          [] kind = "delete" -> None
                          [] OTHER -> @]

FsKinds == {"createFile", "createDir", "delete", "change"}

\* The event can happen on this disk
FsCanApply(fs, rel, kind) ==
    CASE kind \in {"createFile", "createDir"} ->
            fs[rel] = None /\ (ParentRel(rel) # <<>> => fs[ParentRel(rel)] = "dir")
      [] kind = "delete" ->
            fs[rel] # None /\ \A q \in RelPaths : ParentRel(q) = rel => fs[q] = None
      [] OTHER -> fs[rel] = "file"

(***************************************************************************)
(* A create, change or delete on disk, and the watchers' onChange for it   *)
(***************************************************************************)
FsEvent(rel, kind) ==
    LET n == MatchingWatchers(watchers, rel)
        st == OnChange(n, [cache |-> dirCache, pending |-> pendingRefresh,
                           handle |-> refreshTimer])
        fresh == burst.since < 0 \/ burst.since >= DebounceDelay
    IN /\ FsCanApply(fsys, rel, kind)
       /\ fsys' = FsApply(fsys, rel, kind)
       /\ dirCache' = st.cache
       /\ pendingRefresh' = st.pending
       /\ refreshTimer' = st.handle
       /\ IF n > 0
          THEN /\ burst' = [since |-> 0,
                            events |-> IF fresh THEN 1 ELSE Min(burst.events + 1, 2),
                            signals |-> IF fresh THEN 0 ELSE burst.signals,
                            pure |-> IF fresh THEN TRUE ELSE burst.pure]
               /\ anchor' = [anchor EXCEPT !.valid = FALSE]
               /\ preEvent' = 1..(nextLid - 1)
          ELSE UNCHANGED <<burst, anchor, preEvent>>
       /\ UNCHANGED <<groups, settingVars, activeGroupId, notWatch,
                      watchers, inflight, nextLid, lastGet>>

ActiveSignalDelay == 250
MaxSignals == 2

\* The provider as setActiveGroup reads and writes it
Snapshot(active, stored, signals, timers) ==
    [active |-> active, stored |-> stored, signals |-> signals, timers |-> timers]

\* setActiveGroup without its test of activeBehaviorEnabled
SetActiveGroupIn_NoDisabledTest(id, enabled, collapse, s) ==
    IF s.active = id
    THEN s
    ELSE Snapshot(id, id,
                  IF collapse THEN s.signals + 1 ELSE s.signals,
                  IF collapse THEN s.timers ELSE Append(s.timers, ActiveSignalDelay))

\* setActiveGroup(id) under the settings enabled and collapse, on the provider
\* s: the provider after the call
SetActiveGroupIn(id, enabled, collapse, s) ==
    IF (~enabled /\ id # None) \/ s.active = id
    THEN s
    ELSE Snapshot(id, id,
                  IF collapse THEN s.signals + 1 ELSE s.signals,
                  IF collapse THEN s.timers ELSE Append(s.timers, ActiveSignalDelay))

Provider == Snapshot(activeGroupId, storedActiveId, activeSignals, activeTimers)

\* setActiveGroup(id) on the provider as it is
SetActiveGroup(id) ==
    SetActiveGroupIn(id, activeBehaviorEnabled, collapseOthersOnActivate, Provider)

\* The burst of switches after a setActiveGroup call that took the provider
\* from before to after under the option collapse
SwitchesAfter(before, after, collapse) ==
    IF after.active = before.active THEN switches
    ELSE IF collapse THEN NoSwitches
    ELSE IF switches.n = 0 \/ switches.since >= ActiveSignalDelay
    THEN [n |-> 1, since |-> 0, base |-> before.signals, alone |-> before.timers = <<>>]
    ELSE [switches EXCEPT !.n = @ + 1, !.since = 0]

\* onDidChangeConfiguration for the settings of the view: the handler of the
\* provider, and then the handler of extension.ts, which clears the active
\* group when activeBehaviorEnabled has changed and is now off
SettingsChanged(mode, collapse, enabled) ==
    LET t == FireRefreshDebounced(pendingRefresh, refreshTimer)
        a == IF enabled # activeBehaviorEnabled /\ ~enabled
             THEN SetActiveGroupIn(None, enabled, collapse, Provider)
             ELSE Provider
    IN /\ a = Provider \/ activeSignals + Len(activeTimers) < MaxSignals
       /\ displayMode' = mode
       /\ collapseOthersOnActivate' = collapse
       /\ activeBehaviorEnabled' = enabled
       /\ pendingRefresh' = t.pending
       /\ refreshTimer' = t.handle
       /\ burst' = [burst EXCEPT !.pure = FALSE]
       /\ activeGroupId' = a.active
       /\ storedActiveId' = a.stored
       /\ activeSignals' = a.signals
       /\ activeTimers' = a.timers
       /\ switches' = SwitchesAfter(Provider, a, collapse)
       /\ UNCHANGED <<groups, fsys, dirCache, treeVars, resolved, docVars, clickVars, registryVars,
                      suppressSelectionEffects, edHandlers, selHandlers, suppressTimers,
                      selections, sticky, lastSet,
                      watchers, inflight, nextLid, lastGet, anchor, preEvent>>

\* The callback of a refresh timer that is due: _onDidChangeTreeData.fire()
RefreshTimerFires ==
    /\ 0 \in pendingRefresh
    /\ pendingRefresh' = pendingRefresh \ {0}
    /\ refreshTimer' = IF refreshTimer = ArmedTimer(0) THEN FiredTimer ELSE refreshTimer
    /\ burst' = [burst EXCEPT !.signals = Min(@ + 1, 2)]
    /\ UNCHANGED <<groups, fsys, settingVars, activeGroupId, dirCache, notWatch,
                   watchers, inflight, nextLid, lastGet, anchor, preEvent>>

(***************************************************************************)
(* readDirCached in two steps: the call up to its await of readDirectory,  *)
(* and the rest once readDirectory has resolved.  The host reads the       *)
(* directory when it is asked and hands the result over later.             *)
(***************************************************************************)
MaxListings == 3
MaxWait == 1

\* The directories the tree can ask for: a root or below a root
CacheDirs ==
    {ToFsUri(p) : p \in {q \in RelPaths :
        fsys[q] = "dir" /\ \E i \in 1..Len(watchers) : RootMatches(ToFsUri(q), watchers[i])}}

\* readDirCached up to the first return or await
ReadDirCachedCall(uri) ==
    LET hit == CacheHit(dirCache, uri)
        lid == IF hit THEN dirCache[uri].lid ELSE nextLid
        inWindow == anchor.valid /\ anchor.uri = uri /\ anchor.elapsed < CacheTtl
    IN /\ uri \in CacheDirs
       /\ hit \/ nextLid <= MaxListings
       /\ IF hit
          THEN UNCHANGED <<inflight, nextLid>>
          ELSE /\ inflight' = inflight \cup
                      {[uri |-> uri, listing |-> Listing(nextLid, ReadDirectory(uri)),
                        elapsed |-> 0, waited |-> 0]}
               /\ nextLid' = nextLid + 1
       /\ lastGet' = [uri |-> uri, lid |-> lid, hit |-> hit,
                      stale |-> lid \in preEvent,
                      inWindow |-> inWindow, expectLid |-> anchor.lid, called |-> TRUE]
       /\ anchor' = IF inWindow THEN anchor
                    ELSE [uri |-> uri, lid |-> lid, elapsed |-> 0, valid |-> TRUE]
       /\ UNCHANGED <<groups, fsys, settingVars, activeGroupId, dirCache, notWatch,
                      watchers, refreshTimer, pendingRefresh, burst, preEvent>>

\* readDirCached after the await: dirCache.set(key, { entries, ts: now })
\* with the now that was read before the await
ReadDirCachedResume(l) ==
    /\ l \in inflight
    /\ dirCache' = CachePut(dirCache, l.uri, l.listing, l.elapsed)
    /\ inflight' = inflight \ {l}
    /\ UNCHANGED <<groups, fsys, settingVars, activeGroupId, notWatch,
                   watchers, nextLid, refreshTimer, pendingRefresh, watchObs>>

RECURSIVE MinOf(_)
MinOf(S) ==
    LET x == CHOOSE y \in S : TRUE
    IN IF S = {x} THEN x ELSE Min(x, MinOf(S \ {x}))

\* Time passes up to the next armed timer, and by step milliseconds at most;
\* a timer that is due fires before time goes on
Advance(step) ==
    LET d == MinOf({step} \cup pendingRefresh \cup suppressTimers \cup Range(activeTimers)
                   \cup {edHandlers[i].wait : i \in {j \in 1..Len(edHandlers) :
                                                       edHandlers[j].pc # "reveal"}}
                   \cup {selHandlers[i].wait : i \in 1..Len(selHandlers)})
    IN
    /\ d > 0
    /\ selections = {}
    /\ \A i \in 1..Len(edHandlers) : edHandlers[i].pc = "reveal" => edHandlers[i].waited < MaxWait
    /\ suppressTimers' = {r - d : r \in suppressTimers}
    /\ activeTimers' = [i \in 1..Len(activeTimers) |-> activeTimers[i] - d]
    /\ switches' = IF switches.since < 0 THEN switches
                   ELSE [switches EXCEPT !.since = Min(@ + d, ActiveSignalDelay)]
    /\ edHandlers' = [i \in 1..Len(edHandlers) |->
                         IF edHandlers[i].pc = "reveal"
                         THEN [edHandlers[i] EXCEPT !.waited = @ + 1]
                         ELSE [edHandlers[i] EXCEPT !.wait = @ - d]]
    /\ selHandlers' = [i \in 1..Len(selHandlers) |-> [selHandlers[i] EXCEPT !.wait = @ - d]]
    /\ \A l \in inflight : l.waited < MaxWait
    /\ pendingRefresh' = {r - d : r \in pendingRefresh}
    /\ refreshTimer' = IF refreshTimer.state = "armed"
                       THEN ArmedTimer(refreshTimer.left - d) ELSE refreshTimer
    /\ dirCache' = [k \in DOMAIN dirCache |->
                       [dirCache[k] EXCEPT !.age = Min(@ + d, CacheTtl)]]
    /\ inflight' = {[l EXCEPT !.elapsed = Min(@ + d, CacheTtl), !.waited = @ + 1] :
                       l \in inflight}
    /\ burst' = IF burst.since < 0 THEN burst
                ELSE [burst EXCEPT !.since = Min(@ + d, DebounceDelay)]
    /\ anchor' = [anchor EXCEPT !.elapsed = Min(@ + d, CacheTtl)]
    /\ UNCHANGED <<groups, fsys, settingVars, activeGroupId, treeVars, resolved, docVars, clickVars,
                   registryVars, watchers, nextLid, lastGet, preEvent,
                   suppressSelectionEffects, selections, storedActiveId, sticky,
                   activeSignals, lastSet>>

\* The disk of the watcher specifications at the start: two directories
WatchInitFs == [p \in RelPaths |-> IF p \in {<<"a">>, <<"b">>} THEN "dir" ELSE None]

(***************************************************************************)
(* SpecCache: the directory cache under calls, watcher events and time     *)
(***************************************************************************)
CacheGroupLists == {<<Group("g1", <<<<"a">>>>)>>}
CacheSteps == {CacheTtl \div 2}
CacheChanging == {<<"a", "/", "a">>}
CacheKinds == {"createFile", "delete"}

InitCache ==
    /\ groups \in CacheGroupLists
    /\ fsys = WatchInitFs
    /\ displayMode = "name"
    /\ activeGroupId = None
    /\ collapseOthersOnActivate = FALSE
    /\ activeBehaviorEnabled = TRUE
    /\ dirCache = EmptyCache
    /\ TreeIdle
    /\ ResolveIdle
    /\ watchers = RootsOf(groups)
    /\ WatchIdle
    /\ RegistryIdle
    /\ EditorIdle
    /\ ActiveIdle

NextCache ==
    \/ \E rel \in CacheChanging, kind \in CacheKinds : FsEvent(rel, kind)
    \/ \E uri \in CacheDirs : ReadDirCachedCall(uri)
    \/ \E l \in inflight : ReadDirCachedResume(l)
    \/ \E d \in CacheSteps : Advance(d)
    \/ RefreshTimerFires

SpecCache == InitCache /\ [][NextCache]_vars

(***************************************************************************)
(* SpecDebounce: watcher events, settings changes and the refresh timer    *)
(***************************************************************************)
DebounceGroupLists ==
    {<<Group("g1", <<<<"a">>>>)>>,
     <<Group("g1", <<<<"b">>>>)>>,
     <<Group("g1", <<<<"a">>>>), Group("g2", <<<<"a">>, <<"b">>>>)>>}
DebounceSteps == {DebounceDelay \div 3}
DebounceChanging == {<<"a", "/", "a">>, <<"a", "/", "b">>, <<"a", "b">>}

InitDebounce ==
    /\ groups \in DebounceGroupLists
    /\ fsys = WatchInitFs
    /\ displayMode = "name"
    /\ activeGroupId = None
    /\ collapseOthersOnActivate = FALSE
    /\ activeBehaviorEnabled = TRUE
    /\ dirCache = EmptyCache
    /\ TreeIdle
    /\ ResolveIdle
    /\ watchers = RootsOf(groups)
    /\ WatchIdle
    /\ RegistryIdle
    /\ EditorIdle
    /\ ActiveIdle

NextDebounce ==
    \/ \E rel \in DebounceChanging, kind \in FsKinds : FsEvent(rel, kind)
    \/ \E mode \in {"name", "fullPath"} :
          SettingsChanged(mode, collapseOthersOnActivate, activeBehaviorEnabled)
    \/ \E d \in DebounceSteps : Advance(d)
    \/ RefreshTimerFires

SpecDebounce == InitDebounce /\ [][NextDebounce]_vars

(***************************************************************************)
(* The registry commands.  A command loads the document, waits for the     *)
(* user or the disk, changes its own copy, writes it back and has the      *)
(* provider load the document again.                                       *)
(***************************************************************************)
MaxCommands == 2
MaxLoadItems == 2
MaxPicks == 2

\* loadConfig: the groups of the document, every item through normalizeRel
RECURSIVE NormalizeItems(_)
NormalizeItems(items) ==
    IF items = <<>> THEN <<>>
    ELSE <<NormalizeRel(Head(items))>> \o NormalizeItems(Tail(items))

RECURSIVE LoadConfig(_)
LoadConfig(d) ==
    IF d = <<>> THEN <<>>
    ELSE <<Group(Head(d).id, NormalizeItems(Head(d).items))>> \o LoadConfig(Tail(d))

(***************************************************************************)
(* The document as a file.  Its text is a sequence of JSON tokens; the     *)
(* object of one group is one token, the group itself.  A group that was   *)
(* written by hand may lack its items, or hold an item that is no string.  *)
(***************************************************************************)
NumberItem == <<"0">>
NoItems == <<<<None>>>>

\* A token of the text: a punctuation mark or a word, or the object of a group
Tok(x) == [t |-> x, g |-> Group(None, <<>>)]
GroupTok(g) == [t |-> "group", g |-> g]

RECURSIVE Toks(_)
Toks(xs) == IF xs = <<>> THEN <<>> ELSE <<Tok(Head(xs))>> \o Toks(Tail(xs))

\* The elements of an array, with the commas between them
RECURSIVE Elements(_)
Elements(d) ==
    IF d = <<>> THEN <<>>
    ELSE IF Len(d) = 1 THEN <<GroupTok(d[1])>>
    ELSE <<GroupTok(d[1]), Tok(",")>> \o Elements(Tail(d))

\* JSON.stringify(cfg, null, 2)
Stringify(d) == Toks(<<"{", "groups", "[">>) \o Elements(d) \o Toks(<<"]", "}">>)

\* The array t[i..j] holds: element (, element)*, or nothing
ArrayBody(t) ==
    /\ Len(t) = 0 \/ Len(t) % 2 = 1
    /\ \A i \in 1..Len(t) : IF i % 2 = 1 THEN t[i].t = "group" ELSE t[i] = Tok(",")

IsArrayText(t) ==
    Len(t) >= 2 /\ t[1] = Tok("[") /\ t[Len(t)] = Tok("]")
    /\ ArrayBody(SubSeq(t, 2, Len(t) - 1))

ArrayOf(t) == [i \in 1..(Len(t) \div 2) |-> t[2 * i].g]

\* JSON.parse(data): [ok, kind, groups], groups the value of the member
\* 'groups' of an object: [kind, list]
NoMember == [kind |-> "undefined", list |-> <<>>]
Threw == [ok |-> FALSE, kind |-> "undefined", groups |-> NoMember]

Parsed(kind, member) == [ok |-> TRUE, kind |-> kind, groups |-> member]

MemberOf(t) ==
    CASE t = Toks(<<"null">>) -> [kind |-> "null", list |-> <<>>]
      [] t = Toks(<<"1">>) -> [kind |-> "number", list |-> <<>>]
      [] IsArrayText(t) -> [kind |-> "array", list |-> ArrayOf(t)]
      [] OTHER -> NoMember

JsonParse(t) ==
    CASE t = Toks(<<"null">>) -> Parsed("null", NoMember)
      [] t = Toks(<<"1">>) -> Parsed("number", NoMember)
      [] t = Toks(<<"[", "]">>) -> Parsed("array", NoMember)
      [] t = Toks(<<"{", "}">>) -> Parsed("object", NoMember)
      [] Len(t) >= 4 /\ t[1] = Tok("{") /\ t[2] = Tok("groups") /\ t[Len(t)] = Tok("}")
         /\ MemberOf(SubSeq(t, 3, Len(t) - 1)) # NoMember
            -> Parsed("object", MemberOf(SubSeq(t, 3, Len(t) - 1)))
      [] OTHER -> Threw

\* fs.readFile(cfgPath, 'utf8') rejects for a file that is missing or may
\* not be read
ReadFile(f) == IF f.state = "present" THEN [ok |-> TRUE, data |-> f.text]
               ELSE [ok |-> FALSE, data |-> <<>>]

\* (g.items || []).map(p => normalizeRel(p)) throws for items that are no
\* strings
ItemsThrow(g) == g.items # NoItems /\ NumberItem \in Range(g.items)

MapItems(g) == Group(g.id, IF g.items = NoItems THEN <<>> ELSE NormalizeItems(g.items))

\* The body of the try of loadConfig from the parsed value on: [threw, groups]
Normalized(v) ==
    CASE ~v.ok -> [threw |-> TRUE, groups |-> <<>>]
      [] v.kind \in {"null", "number"} -> [threw |-> TRUE, groups |-> <<>>]
      [] v.groups.kind \in {"undefined", "null"} -> [threw |-> FALSE, groups |-> <<>>]
      [] v.groups.kind = "number" -> [threw |-> TRUE, groups |-> <<>>]
      [] OTHER ->
            IF \E i \in 1..Len(v.groups.list) : ItemsThrow(v.groups.list[i])
            THEN [threw |-> TRUE, groups |-> <<>>]
            ELSE [threw |-> FALSE,
                  groups |-> [i \in 1..Len(v.groups.list) |-> MapItems(v.groups.list[i])]]

TryLoad(f) ==
    IF ReadFile(f).ok THEN Normalized(JsonParse(ReadFile(f).data))
    ELSE [threw |-> TRUE, groups |-> <<>>]

\* A loadConfig without its catch
LoadConfigFile_NoCatch(f) == [raised |-> TryLoad(f).threw, groups |-> TryLoad(f).groups]

\* loadConfig on the file: [raised, groups]
LoadConfigFile(f) ==
    [raised |-> FALSE, groups |-> IF TryLoad(f).threw THEN <<>> ELSE TryLoad(f).groups]

\* A loop that pushes every path without looking for it in the list
RECURSIVE PushPicks_NoTest(_, _)
PushPicks_NoTest(items, uris) ==
    IF uris = <<>> THEN items
    ELSE PushPicks_NoTest(IF ToRelPath(Head(uris)) # <<>>
                          THEN Append(items, ToRelPath(Head(uris))) ELSE items,
                          Tail(uris))

\* The loop of addItem over the picked uris:
\* if (rel && !group.items.includes(rel)) group.items.push(rel)
RECURSIVE PushPicks(_, _)
PushPicks(items, uris) ==
    IF uris = <<>> THEN items
    ELSE LET rel == ToRelPath(Head(uris))
         IN PushPicks(IF rel # <<>> /\ rel \notin Range(items)
                      THEN Append(items, rel) ELSE items,
                      Tail(uris))

\* A filter that also drops the items that begin with rel
RECURSIVE FilterOut_Prefix(_, _)
FilterOut_Prefix(items, rel) ==
    IF items = <<>> THEN <<>>
    ELSE (IF StartsWith(Head(items), rel) THEN <<>> ELSE <<Head(items)>>)
         \o FilterOut_Prefix(Tail(items), rel)

\* group.items.filter(i => i !== rel)
RECURSIVE FilterOut(_, _)
FilterOut(items, rel) ==
    IF items = <<>> THEN <<>>
    ELSE (IF Head(items) = rel THEN <<>> ELSE <<Head(items)>>) \o FilterOut(Tail(items), rel)

\* The copy of the document with the items of group gid replaced
SetItems(cfg, gid, items) ==
    [i \in 1..Len(cfg) |->
        IF cfg[i].id = gid /\ \A j \in 1..(i - 1) : cfg[j].id # gid
        THEN Group(gid, items) ELSE cfg[i]]

ItemsOf(gs, gid) == FindGroupIn(gs, gid).items

RemoveAt(seq, i) == SubSeq(seq, 1, i - 1) \o SubSeq(seq, i + 1, Len(seq))

\* A reset that leaves the watchers of the earlier reloads alive
ResetFsWatchers_NoDispose(old, gs) == old \o RootsOf(gs)

\* resetFsWatchers: the watchers there are are disposed, and one is made for
\* every item of every group
ResetFsWatchers(old, gs) == RootsOf(gs)

\* saveConfig(cfg) and provider.refresh(): the document is written, loaded
\* again into the provider, the cache emptied and the watchers made anew
SaveAndRefresh(cfg) ==
    /\ doc' = cfg
    /\ groups' = LoadConfig(cfg)
    /\ dirCache' = EmptyCache
    /\ watchers' = ResetFsWatchers(watchers, LoadConfig(cfg))

\* A refresh that takes the copy of the command when the write has rejected
SaveThenRefresh_FromCopy(cfg, w) ==
    CASE w = "ok" -> SaveAndRefresh(cfg)
      [] w = "failed" -> /\ groups' = LoadConfig(cfg)
                         /\ watchers' = RootsOf(LoadConfig(cfg))
                         /\ dirCache' = EmptyCache
                         /\ UNCHANGED doc
      [] OTHER -> SaveAndRefresh(<<>>)

\* What fs.writeFile can do: write the document; reject and leave the file as
\* it was; reject after it has opened the file, which empties it
WriteOutcomes == {"ok", "failed", "truncated"}

\* await saveConfig(cfg); await provider.refresh().  When the write rejects
\* the handler ends there; when it has emptied the file, the watcher of the
\* document calls provider.refresh(), and loadConfig gives no groups for a
\* document it cannot parse
SaveThenRefresh(cfg, w) ==
    CASE w = "ok" -> SaveAndRefresh(cfg)
      [] w = "failed" -> UNCHANGED <<doc, groups, dirCache, watchers>>
      [] OTHER -> SaveAndRefresh(<<>>)

\* A rejection of a command handler goes to the command service; a rejection
\* of the listener of the settings panel goes to no one
RejectionSurfaces(kind) == kind \in {"addItem", "removeItem"}

\* The observer of failed writes after a handler of this kind has ended
FailureAfter(kind, cfg, wrote, w) ==
    IF wrote /\ w # "ok"
    THEN [happened |-> TRUE, surfaced |-> RejectionSurfaces(kind),
          before |-> groups, cfg |-> cfg]
    ELSE NoFailure

\* The observer of overlapping commands after one more has loaded the document
PairAfterLoad ==
    IF cmds = <<>> THEN [n |-> 1, doc0 |-> doc, ops |-> <<>>, valid |-> TRUE]
    ELSE IF pair.valid /\ pair.n = 1 /\ pair.ops = <<>> THEN [pair EXCEPT !.n = 2]
    ELSE NoPair

\* ... and after one has ended
PairAfterFinish(op, w) ==
    IF pair.valid /\ w = "ok" THEN [pair EXCEPT !.ops = Append(@, op)]
    ELSE NoPair

\* The observer of the last command after a handler has ended
OpAfter(kind, gid, arg, before, after, wrote) ==
    IF lastOp.on
    THEN [on |-> TRUE, n |-> lastOp.n + 1, kind |-> kind, gid |-> gid, arg |-> arg, before |-> before,
          after |-> IF wrote THEN after ELSE before, wrote |-> wrote, docBefore |-> doc,
          doc0 |-> lastOp.doc0]
    ELSE lastOp

\* addItem up to the open dialog: loadConfig and the group of the node
AddItemLoad(gid) ==
    /\ Len(cmds) < MaxCommands
    /\ FindGroupIn(LoadConfig(doc), gid) # NoGroup
    /\ cmds' = Append(cmds, [kind |-> "addItem", gid |-> gid, uri |-> <<>>,
                             cfg |-> LoadConfig(doc)])
    /\ UNCHANGED <<uuids, lastOp>>
    /\ failure' = NoFailure
    /\ pair' = PairAfterLoad
    /\ trip' = IF cmds = <<>>
               THEN [stage |-> "adding", gid |-> gid, uri |-> <<>>,
                     before |-> ItemsOf(groups, gid)]
               ELSE NoTrip
    /\ UNCHANGED <<groups, fsys, settingVars, activeGroupId, dirCache, notRegistry,
                   watchVars, doc>>

\* addItem from the answer of the dialog to its end
AddItemFinish(i, uris, w) ==
    LET c == cmds[i]
        group == FindGroupIn(c.cfg, c.gid)
        cfg == SetItems(c.cfg, c.gid, PushPicks(group.items, uris))
    IN /\ i \in 1..Len(cmds)
       /\ c.kind = "addItem"
       /\ cmds' = RemoveAt(cmds, i)
       /\ IF uris = <<>>
          THEN w = "ok" /\ UNCHANGED <<doc, groups, dirCache, watchers>>
          ELSE SaveThenRefresh(cfg, w)
       /\ trip' = IF trip.stage = "adding" /\ Len(cmds) = 1 /\ Len(uris) = 1 /\ w = "ok"
                  THEN [trip EXCEPT !.stage = "added", !.uri = uris[1]]
                  ELSE NoTrip
       /\ failure' = FailureAfter(c.kind, cfg, uris # <<>>, w)
       /\ lastOp' = OpAfter(c.kind, c.gid, uris, c.cfg, cfg, uris # <<>> /\ w = "ok")
       /\ UNCHANGED uuids
       /\ pair' = PairAfterFinish([kind |-> c.kind, gid |-> c.gid, arg |-> uris], w)
       /\ UNCHANGED <<fsys, settingVars, activeGroupId, notRegistry,
                      inflight, nextLid, refreshTimer, pendingRefresh>>

\* removeItem up to the end of its loadConfig
RemoveItemLoad(gid, uri) ==
    /\ Len(cmds) < MaxCommands
    /\ cmds' = Append(cmds, [kind |-> "removeItem", gid |-> gid, uri |-> uri,
                             cfg |-> LoadConfig(doc)])
    /\ UNCHANGED <<uuids, lastOp>>
    /\ failure' = NoFailure
    /\ pair' = PairAfterLoad
    /\ trip' = IF cmds = <<>> /\ trip.stage = "added" /\ trip.gid = gid
                  /\ ToRelPath(trip.uri) = ToRelPath(uri)
               THEN [trip EXCEPT !.stage = "removing"]
               ELSE NoTrip
    /\ UNCHANGED <<groups, fsys, settingVars, activeGroupId, dirCache, notRegistry,
                   watchVars, doc>>

\* removeItem from the end of its loadConfig on
RemoveItemFinish(i, w) ==
    LET c == cmds[i]
        group == FindGroupIn(c.cfg, c.gid)
        rel == ToRelPath(c.uri)
        done == group # NoGroup /\ rel # <<>>
        cfg == SetItems(c.cfg, c.gid, FilterOut(group.items, rel))
    IN /\ i \in 1..Len(cmds)
       /\ c.kind = "removeItem"
       /\ cmds' = RemoveAt(cmds, i)
       /\ IF done
          THEN SaveThenRefresh(cfg, w)
          ELSE w = "ok" /\ UNCHANGED <<doc, groups, dirCache, watchers>>
       /\ trip' = IF trip.stage = "removing" /\ Len(cmds) = 1 /\ w = "ok"
                  THEN [trip EXCEPT !.stage = "removed"]
                  ELSE NoTrip
       /\ failure' = FailureAfter(c.kind, cfg, done, w)
       /\ lastOp' = OpAfter(c.kind, c.gid, <<>>, c.cfg, cfg, done /\ w = "ok")
       /\ UNCHANGED uuids
       /\ pair' = PairAfterFinish([kind |-> c.kind, gid |-> c.gid, arg |-> c.uri], w)
       /\ UNCHANGED <<fsys, settingVars, activeGroupId, notRegistry,
                      inflight, nextLid, refreshTimer, pendingRefresh>>

\* The message 'removeItem' of the settings panel of group gid, up to the end
\* of its loadConfig
PanelRemoveLoad(gid, rel) ==
    /\ Len(cmds) < MaxCommands
    /\ cmds' = Append(cmds, [kind |-> "panelRemoveItem", gid |-> gid, uri |-> rel,
                             cfg |-> LoadConfig(doc)])
    /\ trip' = NoTrip
    /\ UNCHANGED <<uuids, lastOp>>
    /\ failure' = NoFailure
    /\ pair' = PairAfterLoad
    /\ UNCHANGED <<groups, fsys, settingVars, activeGroupId, dirCache, notRegistry,
                   watchVars, doc>>

\* ... and from there on: current.items.filter(i => i !== rel), save, refresh
PanelRemoveFinish(i, w) ==
    LET c == cmds[i]
        current == FindGroupIn(c.cfg, c.gid)
        cfg == SetItems(c.cfg, c.gid, FilterOut(current.items, c.uri))
    IN /\ i \in 1..Len(cmds)
       /\ c.kind = "panelRemoveItem"
       /\ cmds' = RemoveAt(cmds, i)
       /\ IF current # NoGroup
          THEN SaveThenRefresh(cfg, w)
          ELSE w = "ok" /\ UNCHANGED <<doc, groups, dirCache, watchers>>
       /\ trip' = NoTrip
       /\ failure' = FailureAfter(c.kind, cfg, current # NoGroup, w)
       /\ lastOp' = OpAfter(c.kind, c.gid, <<>>, c.cfg, cfg, current # NoGroup /\ w = "ok")
       /\ UNCHANGED uuids
       /\ pair' = PairAfterFinish([kind |-> c.kind, gid |-> c.gid, arg |-> c.uri], w)
       /\ UNCHANGED <<fsys, settingVars, activeGroupId, notRegistry,
                      inflight, nextLid, refreshTimer, pendingRefresh>>

(***************************************************************************)
(* The commands on whole groups, and addSelectedToGroup                    *)
(***************************************************************************)
MaxUuids == 1

\* uuidv4(): an id that no call has given before and no document holds
Uuid(n) == CASE n = 1 -> "u1" [] n = 2 -> "u2" [] OTHER -> "u3"

\* cfg.groups.findIndex(g => g.id === group.id), counted from 1; 0: not found
IndexOfGroup(cfg, gid) ==
    IF \E i \in 1..Len(cfg) : cfg[i].id = gid
    THEN CHOOSE i \in 1..Len(cfg) : cfg[i].id = gid /\ \A j \in 1..(i - 1) : cfg[j].id # gid
    ELSE 0

Swap(cfg, i, j) ==
    [k \in 1..Len(cfg) |-> IF k = i THEN cfg[j] ELSE IF k = j THEN cfg[i] ELSE cfg[k]]

\* A move that goes round at the ends of the list
MoveGroupIn_Wrap(cfg, gid, dir) ==
    IF IndexOfGroup(cfg, gid) = 0 THEN [wrote |-> FALSE, cfg |-> cfg]
    ELSE [wrote |-> TRUE,
          cfg |-> Swap(cfg, IndexOfGroup(cfg, gid),
                       ((IndexOfGroup(cfg, gid) + dir - 1 + Len(cfg)) % Len(cfg)) + 1)]

\* moveGroup after its loadConfig: [wrote, cfg]
MoveGroupIn(cfg, gid, dir) ==
    IF \/ IndexOfGroup(cfg, gid) = 0
       \/ IndexOfGroup(cfg, gid) + dir < 1
       \/ IndexOfGroup(cfg, gid) + dir > Len(cfg)
    THEN [wrote |-> FALSE, cfg |-> cfg]
    ELSE [wrote |-> TRUE,
          cfg |-> Swap(cfg, IndexOfGroup(cfg, gid), IndexOfGroup(cfg, gid) + dir)]

\* cfg.groups.filter(g => draggedIds.includes(g.id)) when keep is TRUE, and
\* the filter of the groups that are not dragged when it is FALSE
RECURSIVE FilterDragged(_, _, _)
FilterDragged(gs, draggedIds, keep) ==
    IF gs = <<>> THEN <<>>
    ELSE (IF (Head(gs).id \in Range(draggedIds)) = keep THEN <<Head(gs)>> ELSE <<>>)
         \o FilterDragged(Tail(gs), draggedIds, keep)

\* seq.splice(k, 0, ...xs), k counted from 0
SpliceIn(seq, k, xs) == SubSeq(seq, 1, k) \o xs \o SubSeq(seq, k + 1, Len(seq))

\* remaining.findIndex(g => g.id === targetId), or remaining.length when there
\* is no target or the target is not among the remaining groups
InsertIdx(remaining, targetId) ==
    IF targetId # None /\ IndexOfGroup(remaining, targetId) # 0
    THEN IndexOfGroup(remaining, targetId) - 1
    ELSE Len(remaining)

\* A drop that puts the dragged groups after the target
HandleDropIn_AfterTarget(cfg, draggedIds, targetId) ==
    IF cfg = <<>> \/ FilterDragged(cfg, draggedIds, TRUE) = <<>>
    THEN [wrote |-> FALSE, cfg |-> cfg]
    ELSE [wrote |-> TRUE,
          cfg |-> SpliceIn(FilterDragged(cfg, draggedIds, FALSE),
                           Min(InsertIdx(FilterDragged(cfg, draggedIds, FALSE), targetId) + 1,
                               Len(FilterDragged(cfg, draggedIds, FALSE))),
                           FilterDragged(cfg, draggedIds, TRUE))]

\* handleDrop after its loadConfig: [wrote, cfg]
HandleDropIn(cfg, draggedIds, targetId) ==
    IF cfg = <<>> \/ FilterDragged(cfg, draggedIds, TRUE) = <<>>
    THEN [wrote |-> FALSE, cfg |-> cfg]
    ELSE [wrote |-> TRUE,
          cfg |-> SpliceIn(FilterDragged(cfg, draggedIds, FALSE),
                           InsertIdx(FilterDragged(cfg, draggedIds, FALSE), targetId),
                           FilterDragged(cfg, draggedIds, TRUE))]

\* A copy that keeps the id of its source
CopyGroupIn_SameId(cfg, gid, id) ==
    IF FindGroupIn(cfg, gid) = NoGroup THEN [wrote |-> FALSE, cfg |-> cfg]
    ELSE [wrote |-> TRUE, cfg |-> Append(cfg, Group(gid, FindGroupIn(cfg, gid).items))]

\* copyGroup after the input box: { id: uuidv4(), name, items: [...group.items] }
CopyGroupIn(cfg, gid, id) ==
    IF FindGroupIn(cfg, gid) = NoGroup THEN [wrote |-> FALSE, cfg |-> cfg]
    ELSE [wrote |-> TRUE, cfg |-> Append(cfg, Group(id, FindGroupIn(cfg, gid).items))]

\* cfg.groups.filter(g => g.id !== group.id)
DeleteGroupIn(cfg, gid) ==
    IF FindGroupIn(cfg, gid) = NoGroup THEN [wrote |-> FALSE, cfg |-> cfg]
    ELSE [wrote |-> TRUE, cfg |-> SelectSeq(cfg, LAMBDA g : g.id # gid)]

\* addSelectedToGroup after the pick of the group: the document is written
\* only when an item was added
AddSelectedIn(cfg, gid, uri) ==
    IF FindGroupIn(cfg, gid) = NoGroup
       \/ PushPicks(FindGroupIn(cfg, gid).items, <<uri>>) = FindGroupIn(cfg, gid).items
    THEN [wrote |-> FALSE, cfg |-> cfg]
    ELSE [wrote |-> TRUE,
          cfg |-> SetItems(cfg, gid, PushPicks(FindGroupIn(cfg, gid).items, <<uri>>))]

\* pickGroupFromNodeOrQuickPick(cfg) without a node: no group, the only
\* group, or the group the user picks
PickedGroup(cfg, pick) ==
    IF Len(cfg) = 0 THEN None ELSE IF Len(cfg) = 1 THEN cfg[1].id ELSE pick

\* A command up to the end of its loadConfig
CommandLoads(kind, gid, uri) ==
    /\ Len(cmds) < MaxCommands
    /\ cmds' = Append(cmds, [kind |-> kind, gid |-> gid, uri |-> uri,
                             cfg |-> LoadConfig(doc)])
    /\ trip' = NoTrip
    /\ failure' = NoFailure
    /\ pair' = NoPair
    /\ UNCHANGED <<uuids, lastOp>>
    /\ UNCHANGED <<groups, fsys, settingVars, activeGroupId, dirCache, notRegistry,
                   watchVars, doc>>

\* ... and from there to its end: await saveConfig(cfg); await provider.refresh()
CommandEnds(i, gid, r) ==
    /\ cmds' = RemoveAt(cmds, i)
    /\ IF r.wrote THEN SaveThenRefresh(r.cfg, "ok")
       ELSE UNCHANGED <<doc, groups, dirCache, watchers>>
    /\ trip' = NoTrip
    /\ failure' = NoFailure
    /\ pair' = NoPair
    /\ lastOp' = OpAfter(cmds[i].kind, gid, <<cmds[i].uri>>, cmds[i].cfg, r.cfg, r.wrote)
    /\ UNCHANGED <<fsys, settingVars, activeGroupId, notRegistry,
                   inflight, nextLid, refreshTimer, pendingRefresh>>

MoveKinds == {"moveGroupUp", "moveGroupDown"}
MoveDir(kind) == IF kind = "moveGroupUp" THEN -1 ELSE 1

MoveGroupLoad(gid, kind) == kind \in MoveKinds /\ CommandLoads(kind, gid, <<>>)

MoveGroupFinish(i) ==
    /\ i \in 1..Len(cmds)
    /\ cmds[i].kind \in MoveKinds
    /\ CommandEnds(i, cmds[i].gid, MoveGroupIn(cmds[i].cfg, cmds[i].gid, MoveDir(cmds[i].kind)))
    /\ UNCHANGED uuids

\* handleDrop of a data transfer that names groups, onto the group area
\* (targetId is None) or a group node, up to the end of its loadConfig
DropLoad(draggedIds, targetId) ==
    /\ draggedIds # <<>>
    /\ CommandLoads("handleDrop", targetId, draggedIds)

DropFinish(i) ==
    /\ i \in 1..Len(cmds)
    /\ cmds[i].kind = "handleDrop"
    /\ CommandEnds(i, cmds[i].gid, HandleDropIn(cmds[i].cfg, cmds[i].uri, cmds[i].gid))
    /\ UNCHANGED uuids

CopyGroupLoad(gid) ==
    /\ uuids + Cardinality({i \in 1..Len(cmds) : cmds[i].kind = "copyGroup"}) < MaxUuids
    /\ CommandLoads("copyGroup", gid, <<>>)

\* named: the input box gave a name
CopyGroupFinish(i, named) ==
    /\ i \in 1..Len(cmds)
    /\ cmds[i].kind = "copyGroup"
    /\ IF named /\ FindGroupIn(cmds[i].cfg, cmds[i].gid) # NoGroup
       THEN /\ CommandEnds(i, cmds[i].gid,
                           CopyGroupIn(cmds[i].cfg, cmds[i].gid, Uuid(uuids + 1)))
            /\ uuids' = uuids + 1
       ELSE /\ CommandEnds(i, cmds[i].gid, [wrote |-> FALSE, cfg |-> cmds[i].cfg])
            /\ UNCHANGED uuids

DeleteGroupLoad(gid) == CommandLoads("deleteGroup", gid, <<>>)

\* ok: the user confirmed
DeleteGroupFinish(i, ok) ==
    /\ i \in 1..Len(cmds)
    /\ cmds[i].kind = "deleteGroup"
    /\ CommandEnds(i, cmds[i].gid,
                   IF ok THEN DeleteGroupIn(cmds[i].cfg, cmds[i].gid)
                   ELSE [wrote |-> FALSE, cfg |-> cmds[i].cfg])
    /\ UNCHANGED uuids

AddSelectedLoad(uri) == CommandLoads("addSelectedToGroup", None, uri)

AddSelectedFinish(i, pick) ==
    /\ i \in 1..Len(cmds)
    /\ cmds[i].kind = "addSelectedToGroup"
    /\ CommandEnds(i, PickedGroup(cmds[i].cfg, pick),
                   AddSelectedIn(cmds[i].cfg, PickedGroup(cmds[i].cfg, pick), cmds[i].uri))
    /\ UNCHANGED uuids

\* The uris the dialog and the nodes can give: the workspace folder, two
\* entries, and an entry whose name is written with a backslash
RegistryUris ==
    {WsRoot, ToFsUri(<<"a">>), ToFsUri(<<"a", "/", "b">>),
     WsRoot \o <<"/", "a", "\\", "b">>}

RECURSIVE SeqsUpTo(_, _)
SeqsUpTo(S, n) ==
    IF n = 0 THEN {<<>>}
    ELSE SeqsUpTo(S, n - 1) \cup
         {Append(q, x) : q \in {r \in SeqsUpTo(S, n - 1) : Len(r) = n - 1}, x \in S}

RegistryItemLists ==
    {<<>>, <<<<"a">>>>, <<<<"a", "/", "b">>>>, <<<<"b">>, <<"a">>>>,
     <<<<"a">>, <<"b">>, <<"a", "/", "b">>>>}

RegistryGroupLists ==
    {<<Group("g1", l1), Group("g2", l2)>> : l1 \in RegistryItemLists, l2 \in {<<>>, <<<<"a">>>>}}

InitRegistry ==
    /\ groups \in RegistryGroupLists
    /\ fsys = WatchInitFs
    /\ displayMode = "name"
    /\ activeGroupId = None
    /\ collapseOthersOnActivate = FALSE
    /\ activeBehaviorEnabled = TRUE
    /\ dirCache = EmptyCache
    /\ TreeIdle
    /\ ResolveIdle
    /\ watchers = RootsOf(groups)
    /\ WatchIdle
    /\ RegistryIdle
    /\ EditorIdle
    /\ ActiveIdle

NextRegistry ==
    \/ \E gid \in GroupIds : AddItemLoad(gid)
    \/ \E i \in 1..Len(cmds), uris \in SeqsUpTo(RegistryUris, MaxPicks) :
          AddItemFinish(i, uris, "ok")
    \/ \E gid \in GroupIds, uri \in RegistryUris : RemoveItemLoad(gid, uri)
    \/ \E i \in 1..Len(cmds) : RemoveItemFinish(i, "ok")

SpecRegistry == InitRegistry /\ [][NextRegistry]_vars

(***************************************************************************)
(* SpecPersist: the commands and the settings panel when the write of the  *)
(* document can fail, and when commands overlap                            *)
(***************************************************************************)
PersistGroupLists == {<<Group("g1", <<<<"a">>>>), Group("g2", <<>>)>>}
PersistUris == {ToFsUri(<<"a">>), ToFsUri(<<"a", "/", "b">>)}
PersistRels == {<<"a">>, <<"a", "/", "b">>}

InitPersist ==
    /\ groups \in PersistGroupLists
    /\ fsys = WatchInitFs
    /\ displayMode = "name"
    /\ activeGroupId = None
    /\ collapseOthersOnActivate = FALSE
    /\ activeBehaviorEnabled = TRUE
    /\ dirCache = EmptyCache
    /\ TreeIdle
    /\ ResolveIdle
    /\ watchers = RootsOf(groups)
    /\ WatchIdle
    /\ RegistryIdle
    /\ EditorIdle
    /\ ActiveIdle

NextPersist ==
    \/ \E gid \in GroupIds : AddItemLoad(gid)
    \/ \E i \in 1..Len(cmds), uris \in SeqsUpTo(PersistUris, 1), w \in WriteOutcomes :
          AddItemFinish(i, uris, w)
    \/ \E gid \in GroupIds, uri \in PersistUris : RemoveItemLoad(gid, uri)
    \/ \E i \in 1..Len(cmds), w \in WriteOutcomes : RemoveItemFinish(i, w)
    \/ \E gid \in GroupIds, rel \in PersistRels : PanelRemoveLoad(gid, rel)
    \/ \E i \in 1..Len(cmds), w \in WriteOutcomes : PanelRemoveFinish(i, w)

SpecPersist == InitPersist /\ [][NextPersist]_vars

(***************************************************************************)
(* SpecCommands: every command that writes a root list or the list of      *)
(* groups, one after the other or two at a time                            *)
(***************************************************************************)
CommandDocs ==
    {<<Group("g1", <<<<"a">>>>)>>,
     <<Group("g1", <<<<"b">>, <<"a">>>>), Group("g2", <<>>)>>,
     <<Group("g1", <<<<"a", "\\", "b">>, <<"a", "/", "b">>>>), Group("g2", <<<<"a">>>>)>>}

CommandUris == {ToFsUri(<<"a">>), ToFsUri(<<"a", "/", "b">>)}

\* The number of commands of a behaviour
MaxOps == 2

\* One more command may start
MayStart == lastOp.n + Len(cmds) < MaxOps

\* The ids of the groups there can be
AllGroupIds == GroupIds \cup {Uuid(n) : n \in 1..MaxUuids}

InitCommands ==
    /\ doc \in CommandDocs
    /\ groups = LoadConfig(doc)
    /\ fsys = WatchInitFs
    /\ displayMode = "name"
    /\ activeGroupId = None
    /\ collapseOthersOnActivate = FALSE
    /\ activeBehaviorEnabled = TRUE
    /\ dirCache = EmptyCache
    /\ TreeIdle
    /\ ResolveIdle
    /\ watchers = RootsOf(groups)
    /\ WatchIdle
    /\ cmds = <<>> /\ trip = NoTrip /\ failure = NoFailure /\ pair = NoPair
    /\ DocIdle
    /\ lastOp = [NoOp EXCEPT !.on = TRUE, !.doc0 = doc]
    /\ EditorIdle
    /\ ActiveIdle

NextCommands ==
    \/ \E gid \in AllGroupIds : MayStart /\ AddItemLoad(gid)
    \/ \E i \in 1..Len(cmds), uris \in SeqsUpTo(CommandUris, MaxPicks) :
          AddItemFinish(i, uris, "ok")
    \/ \E gid \in AllGroupIds, uri \in CommandUris : MayStart /\ RemoveItemLoad(gid, uri)
    \/ \E i \in 1..Len(cmds) : RemoveItemFinish(i, "ok")
    \/ \E gid \in AllGroupIds, kind \in MoveKinds : MayStart /\ MoveGroupLoad(gid, kind)
    \/ \E i \in 1..Len(cmds) : MoveGroupFinish(i)
    \/ \E gid \in AllGroupIds : MayStart /\ CopyGroupLoad(gid)
    \/ \E i \in 1..Len(cmds), named \in BOOLEAN : CopyGroupFinish(i, named)
    \/ \E gid \in AllGroupIds : MayStart /\ DeleteGroupLoad(gid)
    \/ \E i \in 1..Len(cmds), ok \in BOOLEAN : DeleteGroupFinish(i, ok)
    \/ \E uri \in CommandUris : MayStart /\ AddSelectedLoad(uri)
    \/ \E i \in 1..Len(cmds), pick \in AllGroupIds \cup {None} : AddSelectedFinish(i, pick)

SpecCommands == InitCommands /\ [][NextCommands]_vars

(***************************************************************************)
(* SpecDrop: groups are dragged and dropped in the view, alone or while a  *)
(* move or another drop is under way                                       *)
(***************************************************************************)
DropDocs ==
    {<<Group("g1", <<<<"a">>>>)>>,
     <<Group("g1", <<<<"a">>>>), Group("g2", <<>>), Group("u1", <<<<"b">>>>)>>,
     <<Group("g1", <<>>), Group("g2", <<<<"a">>>>), Group("u1", <<>>), Group("u2", <<>>)>>,
     <<Group("g2", <<>>), Group("g1", <<<<"a">>>>), Group("g2", <<<<"b">>>>)>>}

\* The groups a drag can name: three of the document and one of a document
\* that is no longer there
DropIds == {"g1", "g2", "u1", "u3"}
DropTargets == {None, "g1", "g2", "u1"}

InitDrop ==
    /\ doc \in DropDocs
    /\ groups = LoadConfig(doc)
    /\ fsys = WatchInitFs
    /\ displayMode = "name"
    /\ activeGroupId = None
    /\ collapseOthersOnActivate = FALSE
    /\ activeBehaviorEnabled = TRUE
    /\ dirCache = EmptyCache
    /\ TreeIdle
    /\ ResolveIdle
    /\ watchers = RootsOf(groups)
    /\ WatchIdle
    /\ cmds = <<>> /\ trip = NoTrip /\ failure = NoFailure /\ pair = NoPair
    /\ DocIdle
    /\ lastOp = [NoOp EXCEPT !.on = TRUE, !.doc0 = doc]
    /\ EditorIdle
    /\ ActiveIdle

NextDrop ==
    \/ \E ids \in SeqsUpTo(DropIds, MaxPicks), t \in DropTargets : MayStart /\ DropLoad(ids, t)
    \/ \E i \in 1..Len(cmds) : DropFinish(i)
    \/ \E gid \in GroupIds, kind \in MoveKinds : MayStart /\ MoveGroupLoad(gid, kind)
    \/ \E i \in 1..Len(cmds) : MoveGroupFinish(i)

SpecDrop == InitDrop /\ [][NextDrop]_vars

(***************************************************************************)
(* SpecClick: group nodes are selected one at a time, time passes, the     *)
(* reset timers of the clicks fire, and the rename a double click invokes  *)
(* runs to its end                                                         *)
(***************************************************************************)
DoubleClickWindow == 300
ClickResetDelay == 350
ClickStep == ClickResetDelay - DoubleClickWindow
MaxClicks == 4

\* The test of handleGroupInteraction: the recorded click is on this group
\* and less than 300 ms old
IsDoubleClick(last, gid) == last.id = gid /\ last.age < DoubleClickWindow

\* onDidChangeSelection with the one group node of gid selected:
\* handleGroupInteraction either invokes subExplorer.renameGroup, which runs
\* up to the end of its loadConfig, or records the click and arms its timer
GroupClicked(gid) ==
    /\ clickLog.n < MaxClicks
    /\ IF IsDoubleClick(lastGroupClick, gid)
       THEN /\ lastGroupClick' = NoClick
            /\ clickTimers' = clickTimers
            /\ cmds' = Append(cmds, [kind |-> "renameGroup", gid |-> gid, uri |-> <<>>,
                                     cfg |-> LoadConfig(doc)])
       ELSE /\ lastGroupClick' = [id |-> gid, age |-> 0]
            /\ clickTimers' = clickTimers \cup {[id |-> gid, left |-> ClickResetDelay]}
            /\ cmds' = cmds
    /\ clickLog' = [n |-> clickLog.n + 1, id |-> gid, since |-> 0,
                    prevId |-> clickLog.id, gap |-> clickLog.since,
                    renamed |-> IsDoubleClick(lastGroupClick, gid),
                    prevRenamed |-> clickLog.renamed]
    /\ UNCHANGED <<groups, fsys, settingVars, activeGroupId, dirCache, treeVars, resolved,
                   docVars, watchVars, watchObs, doc, trip, failure, pair, uuids, lastOp,
                   editorVars, activeObs>>

\* The callback of a reset timer: the record is dropped when it is on the
\* group of the click that armed the timer
ClickTimerFires(t) ==
    /\ t \in clickTimers
    /\ t.left = 0
    /\ clickTimers' = clickTimers \ {t}
    /\ lastGroupClick' = IF lastGroupClick.id = t.id THEN NoClick ELSE lastGroupClick
    /\ UNCHANGED <<groups, fsys, settingVars, activeGroupId, dirCache, treeVars, resolved,
                   docVars, clickLog, watchVars, watchObs, registryVars, editorVars, activeObs>>

\* Time passes for the clicks, up to the next timer that is due
ClickTimePasses ==
    /\ \A t \in clickTimers : t.left >= ClickStep
    /\ lastGroupClick' = IF lastGroupClick = NoClick THEN NoClick
                         ELSE [lastGroupClick EXCEPT
                                  !.age = Min(@ + ClickStep, DoubleClickWindow)]
    /\ clickTimers' = {[t EXCEPT !.left = @ - ClickStep] : t \in clickTimers}
    /\ clickLog' = IF clickLog.n = 0 THEN clickLog
                   ELSE [clickLog EXCEPT !.since = Min(@ + ClickStep, DoubleClickWindow)]
    /\ UNCHANGED <<groups, fsys, settingVars, activeGroupId, dirCache, treeVars, resolved,
                   docVars, watchVars, watchObs, registryVars, editorVars, activeObs>>

\* renameGroup from its loadConfig to its end; named: the input box gave a name
RenameGroupFinish(i, named) ==
    /\ i \in 1..Len(cmds)
    /\ cmds[i].kind = "renameGroup"
    /\ CommandEnds(i, cmds[i].gid,
                   [wrote |-> named /\ FindGroupIn(cmds[i].cfg, cmds[i].gid) # NoGroup,
                    cfg |-> cmds[i].cfg])
    /\ UNCHANGED uuids

ClickGroupLists ==
    {<<Group("g1", <<<<"a">>>>)>>,
     <<Group("g1", <<<<"a">>>>), Group("g2", <<>>)>>}

InitClick ==
    /\ groups \in ClickGroupLists
    /\ fsys = WatchInitFs
    /\ displayMode = "name"
    /\ activeGroupId = None
    /\ collapseOthersOnActivate = FALSE
    /\ activeBehaviorEnabled \in BOOLEAN
    /\ dirCache = EmptyCache
    /\ TreeIdle
    /\ ResolveIdle
    /\ watchers = RootsOf(groups)
    /\ WatchIdle
    /\ RegistryIdle
    /\ EditorIdle
    /\ ActiveIdle

NextClick ==
    \/ \E gid \in GroupIdsOf(groups) : GroupClicked(gid)
    \/ \E t \in clickTimers : ClickTimerFires(t)
    \/ ClickTimePasses
    \/ \E i \in 1..Len(cmds), named \in BOOLEAN : RenameGroupFinish(i, named)

SpecClick == InitClick /\ [][NextClick]_vars

(***************************************************************************)
(* SpecReload: the document changes on disk and its watcher calls          *)
(* provider.refresh(), whose loadConfig reads the file at some point and   *)
(* resolves at a later one; the runs of refresh() overlap                  *)
(***************************************************************************)
MaxReloads == 2

NotRead == [read |-> FALSE, cfg |-> <<>>]

\* The document is written (by a command, by hand) and cfgWatcher calls
\* refresh(), which runs up to its await
DocChanges(d) ==
    /\ ~disposed
    /\ Len(reloads) < MaxReloads
    /\ d # doc
    /\ doc' = d
    /\ reloads' = Append(reloads, NotRead)
    /\ UNCHANGED <<groups, fsys, settingVars, activeGroupId, dirCache, treeVars, resolved,
                   watchVars, watchObs, cmds, trip, failure, pair, uuids, lastOp, loaded, disposed, clickVars,
                   editorVars,
                   activeObs>>

\* fs.readFile of the loadConfig of a run reads the file
ReloadReads(i) ==
    /\ i \in 1..Len(reloads)
    /\ ~reloads[i].read
    /\ reloads' = [reloads EXCEPT ![i] = [read |-> TRUE, cfg |-> LoadConfig(doc)]]
    /\ UNCHANGED <<groups, fsys, settingVars, activeGroupId, dirCache, treeVars, resolved,
                   watchVars, watchObs, registryVars, loaded, disposed, clickVars, editorVars, activeObs>>

\* The await of a run resolves and refresh() runs to its end
ReloadResumes(i) ==
    /\ i \in 1..Len(reloads)
    /\ reloads[i].read
    /\ groups' = reloads[i].cfg
    /\ dirCache' = EmptyCache
    /\ watchers' = ResetFsWatchers(watchers, reloads[i].cfg)
    /\ reloads' = RemoveAt(reloads, i)
    /\ UNCHANGED <<fsys, settingVars, activeGroupId, treeVars, resolved,
                   inflight, nextLid, refreshTimer, pendingRefresh, watchObs,
                   registryVars, loaded, disposed, clickVars, editorVars, activeObs>>

ReloadGroupLists ==
    {<<>>,
     <<Group("g1", <<<<"a">>>>)>>,
     <<Group("g1", <<<<"a">>, <<"b">>>>)>>,
     <<Group("g1", <<<<"a">>>>), Group("g2", <<<<"a">>>>)>>,
     <<Group("g1", <<<<"a", "/", "b">>>>), Group("g2", <<<<"b">>, <<"a">>>>)>>,
     <<Group("g2", <<<<"b">>>>)>>}

InitReload ==
    /\ groups \in ReloadGroupLists
    /\ fsys = WatchInitFs
    /\ displayMode = "name"
    /\ activeGroupId = None
    /\ collapseOthersOnActivate = FALSE
    /\ activeBehaviorEnabled = TRUE
    /\ dirCache = EmptyCache
    /\ TreeIdle
    /\ ResolveIdle
    /\ watchers = RootsOf(groups)
    /\ WatchIdle
    /\ RegistryIdle
    /\ EditorIdle
    /\ ActiveIdle

NextReload ==
    \/ \E d \in ReloadGroupLists : DocChanges(d)
    \/ \E i \in 1..Len(reloads) : ReloadReads(i)
    \/ \E i \in 1..Len(reloads) : ReloadResumes(i)

SpecReload == InitReload /\ [][NextReload]_vars

(***************************************************************************)
(* SpecDispose: provider.dispose() is called while the document changes,   *)
(* runs of refresh() are under way, the watchers report events and the     *)
(* refresh timer is armed                                                  *)
(***************************************************************************)
\* dispose(): disposeFsWatchers() and cfgWatcher.dispose(); the refresh timer
\* and the runs of refresh() under way are left as they are
Dispose ==
    /\ ~disposed
    /\ disposed' = TRUE
    /\ watchers' = <<>>
    /\ UNCHANGED <<groups, fsys, settingVars, activeGroupId, dirCache, treeVars, resolved,
                   reloads, loaded, clickVars, inflight, nextLid, refreshTimer, pendingRefresh,
                   watchObs, registryVars, editorVars, activeObs>>

DisposeGroupLists ==
    {<<>>,
     <<Group("g1", <<<<"a">>>>)>>,
     <<Group("g1", <<<<"a">>>>), Group("g2", <<<<"b">>>>)>>}
DisposeSteps == {DebounceDelay \div 2}
DisposeChanging == {<<"a", "/", "a">>}
DisposeKinds == {"createFile", "change", "delete"}

InitDispose ==
    /\ groups \in DisposeGroupLists
    /\ fsys = WatchInitFs
    /\ displayMode = "name"
    /\ activeGroupId = None
    /\ collapseOthersOnActivate = FALSE
    /\ activeBehaviorEnabled = TRUE
    /\ dirCache = EmptyCache
    /\ TreeIdle
    /\ ResolveIdle
    /\ watchers = RootsOf(groups)
    /\ WatchIdle
    /\ RegistryIdle
    /\ EditorIdle
    /\ ActiveIdle

NextDispose ==
    \/ \E d \in DisposeGroupLists : DocChanges(d)
    \/ \E i \in 1..Len(reloads) : ReloadReads(i)
    \/ \E i \in 1..Len(reloads) : ReloadResumes(i)
    \/ \E rel \in DisposeChanging, kind \in DisposeKinds : FsEvent(rel, kind)
    \/ \E d \in DisposeSteps : Advance(d)
    \/ RefreshTimerFires
    \/ Dispose

SpecDispose == InitDispose /\ [][NextDispose]_vars

(***************************************************************************)
(* SpecSignal: watcher events, reloads of the registry that replace the    *)
(* watchers, and time.  Time passes and a timer that is due fires: the     *)
(* event loop of the host runs the callback of every timer that is due.    *)
(***************************************************************************)
SignalGroupLists ==
    {<<>>,
     <<Group("g1", <<<<"a">>>>)>>,
     <<Group("g1", <<<<"a">>, <<"b">>>>)>>}
SignalSteps == {DebounceDelay \div 2}
SignalChanging == {<<"a", "/", "a">>}
SignalKinds == {"createFile", "change", "delete"}

InitSignal ==
    /\ groups \in SignalGroupLists
    /\ fsys = WatchInitFs
    /\ displayMode = "name"
    /\ activeGroupId = None
    /\ collapseOthersOnActivate = FALSE
    /\ activeBehaviorEnabled = TRUE
    /\ dirCache = EmptyCache
    /\ TreeIdle
    /\ ResolveIdle
    /\ watchers = RootsOf(groups)
    /\ WatchIdle
    /\ RegistryIdle
    /\ EditorIdle
    /\ ActiveIdle

TimePasses == \E d \in SignalSteps : Advance(d)

NextSignal ==
    \/ \E d \in SignalGroupLists : DocChanges(d)
    \/ \E i \in 1..Len(reloads) : ReloadReads(i)
    \/ \E i \in 1..Len(reloads) : ReloadResumes(i)
    \/ \E rel \in SignalChanging, kind \in SignalKinds : FsEvent(rel, kind)
    \/ TimePasses
    \/ RefreshTimerFires

SpecSignal ==
    /\ InitSignal
    /\ [][NextSignal]_vars
    /\ WF_vars(TimePasses)
    /\ WF_vars(RefreshTimerFires)

(***************************************************************************)
(* SpecLoad: loadConfig is called on files of every kind: written whole,   *)
(* written in part, written by hand, missing, unreadable                   *)
(***************************************************************************)
LoadItems ==
    {<<"a">>, <<"a", "/", "b">>, <<"a", "\\", "b">>, <<"a", "/">>, NumberItem}

LoadItemLists == {NoItems} \cup SeqsUpTo(LoadItems, MaxLoadItems)

LoadGroupLists ==
    {<<>>} \cup {<<Group("g1", l)>> : l \in LoadItemLists}
    \cup {<<Group("g1", l1), Group("g2", l2)>> :
             l1 \in LoadItemLists, l2 \in {<<>>, <<<<"a", "\\", "b">>>>}}

\* The texts that no stringify has written
OtherTexts ==
    {Toks(t) : t \in
        {<<>>, <<"null">>, <<"1">>, <<"[", "]">>, <<"{", "}">>, <<"}">>,
         <<"{", "groups", "null", "}">>, <<"{", "groups", "1", "}">>,
         <<"{", "groups", "[", "]">>}}

LoadFiles ==
    {[state |-> "present", text |-> Stringify(d), partial |-> FALSE] : d \in LoadGroupLists}
    \cup UNION {{[state |-> "present", text |-> SubSeq(Stringify(d), 1, k), partial |-> TRUE] :
                    k \in 0..(Len(Stringify(d)) - 1)} : d \in LoadGroupLists}
    \cup {[state |-> "present", text |-> t, partial |-> FALSE] : t \in OtherTexts}
    \cup {[state |-> st, text |-> Stringify(d), partial |-> FALSE] :
             st \in {"missing", "unreadable"}, d \in {<<>>, <<Group("g1", <<<<"a">>>>)>>}}

LoadCall(f) ==
    /\ loaded' = [called |-> TRUE, file |-> f,
                  raised |-> LoadConfigFile(f).raised, groups |-> LoadConfigFile(f).groups]
    /\ UNCHANGED <<reloads, disposed, clickVars>>
    /\ UNCHANGED <<groups, fsys, settingVars, activeGroupId, dirCache, treeVars, resolved,
                   watchVars, watchObs, registryVars, editorVars, activeObs>>

InitLoad ==
    /\ groups = <<>>
    /\ fsys = [p \in RelPaths |-> None]
    /\ displayMode = "name"
    /\ activeGroupId = None
    /\ collapseOthersOnActivate = FALSE
    /\ activeBehaviorEnabled = TRUE
    /\ dirCache = EmptyCache
    /\ TreeIdle
    /\ ResolveIdle
    /\ watchers = <<>>
    /\ WatchIdle
    /\ RegistryIdle
    /\ EditorIdle
    /\ ActiveIdle

NextLoad == \E f \in LoadFiles : LoadCall(f)

SpecLoad == InitLoad /\ [][NextLoad]_vars

(***************************************************************************)
(* revealInActiveGroup: the walk from the group node to the target         *)
(***************************************************************************)
\* nodes.find(...): the first node whose index is in S, or NoNode
First(nodes, S) ==
    IF S = {} THEN NoNode ELSE nodes[CHOOSE i \in S : \A j \in S : i <= j]

\* kids.find(label === seg) ?? kids.find(basename(fsPath) === seg)
OrElse(found, other) == IF found # NoNode THEN found ELSE other

FindSegName(kids, seg) ==
    OrElse(First(kids, {i \in 1..Len(kids) : kids[i].label = seg}),
           First(kids, {i \in 1..Len(kids) :
                kids[i].resourceUri # NoUri /\ Basename(kids[i].resourceUri) = seg}))

\* kids.find(label === seg) ?? kids.find(fsPath.endsWith(path.sep + seg))
FindSegFullPath(kids, seg) ==
    OrElse(First(kids, {i \in 1..Len(kids) : kids[i].label = seg}),
           First(kids, {i \in 1..Len(kids) :
                kids[i].resourceUri # NoUri /\ EndsWith(kids[i].resourceUri, Slash \o seg)}))

\* The loop over the segments: it stops at the first segment without a node
FindSeg(kids, seg) ==
    IF displayMode = "name" THEN FindSegName(kids, seg) ELSE FindSegFullPath(kids, seg)

RECURSIVE Walk(_, _, _)
WalkStep(parent, segs, r, next) ==
    IF next = NoNode THEN [node |-> parent, cache |-> r.cache, stopped |-> TRUE]
    ELSE Walk(next, Tail(segs), r.cache)

WalkInto(parent, segs, r) == WalkStep(parent, segs, r, FindSeg(r.nodes, Head(segs)))

Walk(parent, segs, cache) ==
    IF segs = <<>> THEN [node |-> parent, cache |-> cache, stopped |-> FALSE]
    ELSE WalkInto(parent, segs, GetChildren(parent, cache))

\* The root of the group the target sits under: the first of the longest
RECURSIVE RevealRootLoop(_, _, _, _)
RevealRootLoop(items, fsPath, rootRel, bestLen) ==
    IF items = <<>> THEN rootRel
    ELSE LET rel == Head(items)
             rootFs == PathJoin(WsRoot, rel)
             better == (fsPath = rootFs \/ StartsWith(fsPath, rootFs \o Slash))
                       /\ Len(rootFs) > bestLen
         IN RevealRootLoop(Tail(items), fsPath,
                           IF better THEN rel ELSE rootRel,
                           IF better THEN Len(rootFs) ELSE bestLen)

\* What a reveal gives: the node it returns (NoNode: undefined), the cache,
\* the node its walk ended at and whether the walk met a segment without a node
Revealed(leaf, cache, w) ==
    [leaf |-> leaf, cache |-> cache, last |-> w.node, stopped |-> w.stopped]

\* A return of undefined before the walk
Miss(cache) == [leaf |-> NoNode, cache |-> cache, last |-> NoNode, stopped |-> FALSE]

\* A last step that takes the first child of the node reached, whatever its
\* path
RevealExact_FirstChild(fsPath, r, w) ==
    Revealed(First(r.nodes, 1..Len(r.nodes)), r.cache, w)

\* The last step: the node reached, or the child of it with the target's path
RevealExact(fsPath, r, w) ==
    Revealed(First(r.nodes, {i \in 1..Len(r.nodes) : r.nodes[i].resourceUri = fsPath}),
             r.cache, w)

\* A last step that returns the node the walk ended at when no child has the
\* target's path
RevealFinal_LastNode(w, fsPath) ==
    IF w.node.resourceUri = fsPath THEN Revealed(w.node, w.cache, w)
    ELSE Revealed(OrElse(RevealExact(fsPath, GetChildren(w.node, w.cache), w).leaf, w.node),
                  RevealExact(fsPath, GetChildren(w.node, w.cache), w).cache, w)

RevealFinal(w, fsPath) ==
    IF w.node.resourceUri = fsPath THEN Revealed(w.node, w.cache, w)
    ELSE RevealExact(fsPath, GetChildren(w.node, w.cache), w)

RevealWalk(start, segs, cache, fsPath) == RevealFinal(Walk(start, segs, cache), fsPath)


\* The group a reveal starts from when the active group is the default
RevealGroupId_Owner(uri, optGid) ==
    IF optGid # None THEN optGid ELSE FindGroupIdForUri(groups, uri, None)

\* options?.groupId ?? this.activeGroupId
RevealGroupId(uri, optGid) == IF optGid # None THEN optGid ELSE activeGroupId

\* The walk in 'name' mode, from the item of the root found among the
\* children of the group node
RevealByName(uri, rootRel, fileSegs, topChildren, byRel) ==
    LET rootItem == IF byRel # NoNode THEN byRel
                    ELSE First(topChildren.nodes, {i \in 1..Len(topChildren.nodes) :
                             topChildren.nodes[i].label = Basename(rootRel)})
    IN IF rootItem = NoNode THEN Miss(topChildren.cache)
       ELSE RevealWalk(rootItem, fileSegs, topChildren.cache, uri)

\* topChildren.find(n => n.rootRel === rootRel)
RevealByNameFrom(uri, rootRel, fileSegs, topChildren) ==
    RevealByName(uri, rootRel, fileSegs, topChildren,
                 First(topChildren.nodes, {i \in 1..Len(topChildren.nodes) :
                     topChildren.nodes[i].rootRel = rootRel}))

\* A walk that goes by the segments below the root in both modes
RevealBelow_FileSegsOnly(uri, rootRel, fileSegs, groupNode, cache) ==
    IF displayMode = "name"
    THEN RevealByNameFrom(uri, rootRel, fileSegs, GetChildren(groupNode, cache))
    ELSE RevealWalk(groupNode, fileSegs, cache, uri)

\* The part after the group node has been found
RevealBelow(uri, rootRel, fileSegs, groupNode, cache) ==
    IF displayMode = "name"
    THEN RevealByNameFrom(uri, rootRel, fileSegs, GetChildren(groupNode, cache))
    ELSE RevealWalk(groupNode, Split(rootRel) \o fileSegs, cache, uri)

\* The part after the root of the target has been found
RevealUnder(uri, gid, rootRel, relUnderRoot, top) ==
    LET groupNode == First(top.nodes, {i \in 1..Len(top.nodes) :
                         top.nodes[i].type = "group" /\ top.nodes[i].groupId = gid})
    IN IF groupNode = NoNode THEN Miss(top.cache)
       ELSE RevealBelow(uri, rootRel,
                        IF relUnderRoot # <<>> THEN Split(relUnderRoot) ELSE <<>>,
                        groupNode, top.cache)

RevealInGroup(uri, gid, rootRel, cache) ==
    IF rootRel = NoUri THEN Miss(cache)
    ELSE RevealUnder(uri, gid, rootRel,
                     ReplaceBackslashes(PathRelative(PathJoin(WsRoot, rootRel), uri)),
                     GetChildren(NoNode, cache))

RevealFrom(uri, gid, cache) ==
    IF gid = None \/ FindGroup(gid) = NoGroup THEN Miss(cache)
    ELSE RevealInGroup(uri, gid, RevealRootLoop(FindGroup(gid).items, uri, NoUri, -1), cache)

\* revealInActiveGroup(uri, treeView, {groupId: optGid}): [leaf, cache]; the
\* leaf, when there is one, has been passed to treeView.reveal
RevealInActiveGroup(uri, optGid, cache) ==
    IF ~activeBehaviorEnabled /\ optGid = None THEN Miss(cache)
    ELSE RevealFrom(uri, RevealGroupId(uri, optGid), cache)

(***************************************************************************)
(* getParent                                                               *)
(***************************************************************************)
\* The group node getParent builds: active when the group is the active
\* group
ParentGroupNode(group) ==
    SubExplorerNode("group", <<group.id>>, NoUri, "Expanded",
                    IF activeGroupId = group.id THEN "groupActive" ELSE "group",
                    group.id, NoUri, FALSE, <<"group", group.id>>)

\* rel.split('/').pop() || rel
LastSegOr(rel) ==
    IF rel = <<>> THEN rel
    ELSE IF Basename(rel) # <<>> THEN Basename(rel) ELSE rel

\* The parent of a path node whose parent is a path node
ParentPathNode(group, fullRel, parentRel) ==
    SubExplorerNode("path", LastSegOr(parentRel), ToFsUri(parentRel), "Collapsed", "fs",
                    group.id, parentRel, fullRel = parentRel,
                    <<"path", group.id, parentRel>>)

ParentOfPath(group, fullRel) ==
    IF LastIndexOfSlash(fullRel) <= 0 THEN ParentGroupNode(group)
    ELSE ParentPathNode(group, fullRel, SubSeq(fullRel, 1, LastIndexOfSlash(fullRel)))

\* A parent of a file system node that is always a file system node
ParentOfFsBelow_NeverRoot(el, group, parentWsRel) ==
    SubExplorerNode("fs", LastSegOr(parentWsRel),
                    SubSeq(el.resourceUri, 1, LastIndexOfSlash(el.resourceUri)),
                    "Collapsed", "fs", group.id, el.rootRel, FALSE,
                    <<"fs", group.id,
                      MakeRelFromUri(SubSeq(el.resourceUri, 1,
                                            LastIndexOfSlash(el.resourceUri)))>>)

\* The parent of a file system node: the item or the terminal path node of
\* its root when it lies directly below the root, the file system node of
\* its directory otherwise
ParentOfFsBelow(el, group, parentWsRel) ==
    IF parentWsRel = el.rootRel
    THEN SubExplorerNode(IF displayMode = "name" THEN "item" ELSE "path",
                         LastSegOr(parentWsRel), ToFsUri(parentWsRel), "Collapsed", "item",
                         group.id, parentWsRel, TRUE,
                         <<IF displayMode = "name" THEN "item" ELSE "path",
                           group.id, parentWsRel>>)
    ELSE SubExplorerNode("fs", LastSegOr(parentWsRel),
                         SubSeq(el.resourceUri, 1, LastIndexOfSlash(el.resourceUri)),
                         "Collapsed", "fs", group.id, el.rootRel, FALSE,
                         <<"fs", group.id,
                           MakeRelFromUri(SubSeq(el.resourceUri, 1,
                                                 LastIndexOfSlash(el.resourceUri)))>>)

ParentOfFs(el, group) ==
    IF el.resourceUri = NoUri THEN NoNode
    ELSE ParentOfFsBelow(el, group, ParentRel(MakeRelFromUri(el.resourceUri)))

\* getParent(element): the node, NoNode for undefined
GetParent(el) ==
    IF el.type = "group" THEN NoNode
    ELSE IF FindGroup(el.groupId) = NoGroup THEN NoNode
    ELSE CASE el.type = "item" -> ParentGroupNode(FindGroup(el.groupId))
           [] el.type = "path" -> ParentOfPath(FindGroup(el.groupId), el.rootRel)
           [] el.type = "fs" -> ParentOfFs(el, FindGroup(el.groupId))
           [] OTHER -> NoNode

(***************************************************************************)
(* SpecIds: the tree view over nested roots, expanded to the files below   *)
(* a directory that is itself a root                                       *)
(***************************************************************************)
\* One group of one or two roots, or the nested roots a and a/a in two groups
IdGroupLists ==
    {<<Group("g1", l)>> : l \in ItemListsOfLen(1) \cup ItemListsOfLen(2)}
    \cup {<<Group("g1", <<<<"a">>>>), Group("g2", <<<<"a", "/", "a">>>>)>>}

\* Directory a holds the directory a/a and the file a/b
IdInitFs ==
    [p \in RelPaths |->
        CASE p \in {<<"a">>, <<"a", "/", "a">>} -> "dir"
          [] p \in {<<"a", "/", "b">>, <<"b">>} -> "file"
          [] OTHER -> None]

\* Directory a/a is empty, or holds one file a/a/a: the paths of the disk
\* end one level higher, and the listing of a/a is the one readDirCached
\* stored less than three seconds ago
IdCaches ==
    {EmptyCache,
     CachePut(EmptyCache, ToFsUri(<<"a", "/", "a">>),
              Listing(0, << <<<<"a">>, "file">> >>), 0)}

InitIds ==
    /\ groups \in IdGroupLists
    /\ fsys = IdInitFs
    /\ displayMode \in {"name", "fullPath"}
    /\ activeGroupId = None
    /\ collapseOthersOnActivate = FALSE
    /\ activeBehaviorEnabled = TRUE
    /\ dirCache \in IdCaches
    /\ TreeIdle
    /\ ResolveIdle
    /\ watchers = RootsOf(groups)
    /\ WatchIdle
    /\ RegistryIdle
    /\ EditorIdle
    /\ ActiveIdle

SpecIds == InitIds /\ [][NextTree]_vars

(***************************************************************************)
(* SpecFaults: the host asks for children while files and directories are  *)
(* created and deleted, so that it also asks for the children of nodes     *)
(* whose path is gone                                                      *)
(***************************************************************************)
\* The paths that are declared, created and deleted
FaultPaths == RelPaths \ {<<"a", "b">>}

\* One group of one or two roots
FaultGroupLists ==
    {<<Group("g1", l)>> :
        l \in {x \in ItemListsOfLen(1) \cup ItemListsOfLen(2) : Range(x) \subseteq FaultPaths}}

FaultInitFs ==
    [p \in RelPaths |->
        CASE p = <<"a">> -> "dir"
          [] p = <<"a", "/", "a">> -> "file"
          [] p = <<"a", "/", "b">> -> "dir"
          [] p = <<"b">> -> "file"
          [] OTHER -> None]

FaultKinds == {"createFile", "createDir", "delete"}

InitFaults ==
    /\ groups \in FaultGroupLists
    /\ fsys = FaultInitFs
    /\ displayMode \in {"name", "fullPath"}
    /\ activeGroupId = None
    /\ collapseOthersOnActivate = FALSE
    /\ activeBehaviorEnabled = TRUE
    /\ dirCache = EmptyCache
    /\ TreeIdle
    /\ ResolveIdle
    /\ watchers = RootsOf(groups)
    /\ WatchIdle
    /\ RegistryIdle
    /\ EditorIdle
    /\ ActiveIdle

NextFaults ==
    \/ TreeGetChildren(NoNode)
    \/ \E i \in 1..Len(children) : TreeGetChildren(children[i])
    \/ \E rel \in FaultPaths, kind \in FaultKinds : FsEvent(rel, kind)

SpecFaults == InitFaults /\ [][NextFaults]_vars

(***************************************************************************)
(* SpecReveal: the host asks for the reveal of a path, from the active     *)
(* group or from a group it names, on a disk that stays as it is           *)
(***************************************************************************)
\* The group a reveal starts from, None when it returns at once
StartGroup(optGid) ==
    IF ~activeBehaviorEnabled /\ optGid = None THEN None ELSE RevealGroupId(<<>>, optGid)

\* A reveal that makes the group it starts from the active group
RevealCall_Activates(uri, optGid) ==
    \E r \in {RevealInActiveGroup(uri, optGid, dirCache)} :
       /\ revealed' = [called |-> TRUE, uri |-> uri, gid |-> StartGroup(optGid),
                       last |-> r.last, stopped |-> r.stopped, leaf |-> r.leaf]
       /\ dirCache' = r.cache
       /\ activeGroupId' = StartGroup(optGid)
       /\ UNCHANGED <<groups, fsys, settingVars, notTree, element, children, listed>>

RevealCall(uri, optGid) ==
    \E r \in {RevealInActiveGroup(uri, optGid, dirCache)} :
       /\ revealed' = [called |-> TRUE, uri |-> uri, gid |-> StartGroup(optGid),
                       last |-> r.last, stopped |-> r.stopped, leaf |-> r.leaf]
       /\ dirCache' = r.cache
       /\ UNCHANGED <<groups, fsys, settingVars, activeGroupId, notTree,
                      element, children, listed>>

\* The number of roots of the one group of a reveal
MaxRevealRoots == 2

\* One group with any roots, or nested roots shared out between two groups
RevealGroupLists ==
    {<<Group("g1", l)>> : l \in UNION {ItemListsOfLen(n) : n \in 0..MaxRevealRoots}}
    \cup {<<Group("g1", <<<<"a">>>>), Group("g2", <<<<"a", "/", "b">>>>)>>,
          <<Group("g1", <<<<"a", "/", "a">>, <<"a">>>>), Group("g2", <<<<"a", "b">>>>)>>}

RevealUris == {ToFsUri(r) : r \in RelPaths}

\* The disks of a reveal: a and b with what is below a
RevealFileSystems == {f \in FileSystems : f[<<"a", "b">>] = None}

InitReveal ==
    /\ groups \in RevealGroupLists
    /\ fsys \in RevealFileSystems
    /\ displayMode \in {"name", "fullPath"}
    /\ activeGroupId \in {"g1", None}
    /\ collapseOthersOnActivate = FALSE
    /\ activeBehaviorEnabled \in BOOLEAN
    /\ dirCache = EmptyCache
    /\ TreeIdle
    /\ ResolveIdle
    /\ watchers = RootsOf(groups)
    /\ WatchIdle
    /\ RegistryIdle
    /\ EditorIdle
    /\ ActiveIdle

NextReveal == \E uri \in RevealUris, optGid \in GroupIds \cup {None} : RevealCall(uri, optGid)

SpecReveal == InitReveal /\ [][NextReveal]_vars

(***************************************************************************)
(* The handlers of the active editor and of the selection of the view      *)
(***************************************************************************)
MaxHandlers == 2
MaxEvents == 2
RetryWait == 100
SuppressResetDelay == 350
SelectionWait == 50
SelectionResetDelay == 150

\* onDidChangeActiveTextEditor up to the first await: the flag is raised
EditorChanged(uri) ==
    /\ activeBehaviorEnabled
    /\ Len(edHandlers) < MaxHandlers
    /\ sticky.events < MaxEvents
    /\ selections = {}
    /\ suppressSelectionEffects' = TRUE
    /\ edHandlers' = Append(edHandlers, [uri |-> uri, pc |-> "reveal", leaf |-> NoNode,
                                         wait |-> 0, waited |-> 0])
    /\ sticky' = [sticky EXCEPT
                    !.events = @ + 1,
                    !.ok = @ /\ activeGroupId \in MatchingGroupIds(uri),
                    !.both = @ \/ (activeGroupId \in MatchingGroupIds(uri)
                                   /\ MatchingGroupIds(uri) # {activeGroupId})]
    /\ UNCHANGED <<groups, fsys, settingVars, activeGroupId, dirCache, notEditor,
                   selHandlers, suppressTimers, selections, activeTimers, activeSignals, storedActiveId>>

\* The end of the handler: the timer that lowers the flag is armed
EditorFinally(i) ==
    /\ edHandlers' = RemoveAt(edHandlers, i)
    /\ suppressTimers' = suppressTimers \cup {SuppressResetDelay}

\* The reveal under the active group and, if it gave no node, under the
\* group findGroupIdForUri names
\* A handler that keeps to the reveal under the active group
EditorRevealAgain_NoRetry(uri, r1, gid) == r1

EditorRevealAgain(uri, r1, gid) ==
    IF r1.leaf = NoNode /\ gid # None /\ gid # activeGroupId
    THEN RevealInActiveGroup(uri, gid, r1.cache) ELSE r1

EditorRevealResult(uri) ==
    EditorRevealAgain(uri, RevealInActiveGroup(uri, None, dirCache),
                      FindGroupIdForUri(groups, uri, activeGroupId))

EditorReveal(i) ==
    \E h \in {edHandlers[j] : j \in {i} \cap DOMAIN edHandlers} :
    \E r2 \in {EditorRevealResult(h.uri)} :
       /\ h.pc = "reveal"
       /\ selections = {}
       /\ dirCache' = r2.cache
       /\ IF r2.leaf # NoNode
          THEN /\ selections' = selections \cup {r2.leaf}
               /\ edHandlers' = [edHandlers EXCEPT ![i] =
                                    [h EXCEPT !.pc = "retry1", !.leaf = r2.leaf,
                                              !.wait = RetryWait]]
               /\ UNCHANGED suppressTimers
          ELSE /\ EditorFinally(i)
               /\ UNCHANGED selections
       /\ UNCHANGED <<groups, fsys, settingVars, activeGroupId, notEditor,
                      suppressSelectionEffects, selHandlers, activeTimers, activeSignals, storedActiveId,
                      sticky>>

\* One turn of the retry loop, once its 100 ms have passed
EditorRetry(i) ==
    LET h == edHandlers[i]
    IN /\ i \in 1..Len(edHandlers)
       /\ h.pc \in {"retry1", "retry2"}
       /\ h.wait = 0
       /\ selections = {}
       /\ selections' = selections \cup {h.leaf}
       /\ IF h.pc = "retry1"
          THEN /\ edHandlers' = [edHandlers EXCEPT ![i] =
                                    [h EXCEPT !.pc = "retry2", !.wait = RetryWait]]
               /\ UNCHANGED suppressTimers
          ELSE EditorFinally(i)
       /\ UNCHANGED <<groups, fsys, settingVars, activeGroupId, dirCache, notEditor,
                      suppressSelectionEffects, selHandlers, activeTimers, activeSignals, storedActiveId,
                      sticky>>

\* onDidChangeSelection for a node that a reveal has selected (never a group
\* node), up to the wait of 50 ms
SelectionDelivered(node) ==
    LET switch == ~suppressSelectionEffects /\ activeBehaviorEnabled
                  /\ node.type # "group" /\ node.groupId # None
                  /\ activeGroupId # node.groupId
        a == SetActiveGroup(node.groupId)
    IN /\ node \in selections
       /\ selections' = selections \ {node}
       /\ IF switch
          THEN /\ suppressSelectionEffects' = TRUE
               /\ activeGroupId' = a.active
               /\ storedActiveId' = a.stored
               /\ activeTimers' = a.timers
               /\ activeSignals' = a.signals
               /\ selHandlers' = Append(selHandlers, [node |-> node, wait |-> SelectionWait])
          ELSE UNCHANGED <<suppressSelectionEffects, activeGroupId, storedActiveId,
                           activeTimers, activeSignals, selHandlers>>
       /\ UNCHANGED <<groups, fsys, settingVars, dirCache, notEditor,
                      edHandlers, suppressTimers, sticky>>

\* The rest of the selection handler: the node is revealed again under its
\* group and the timer that lowers the flag is armed
SelectionResume(i) ==
    \E h \in {selHandlers[j] : j \in {i} \cap DOMAIN selHandlers} :
    \E r \in {IF h.node.resourceUri # NoUri
              THEN RevealInActiveGroup(h.node.resourceUri, h.node.groupId, dirCache)
              ELSE Miss(dirCache)} :
       /\ h.wait = 0
       /\ selections = {}
       /\ dirCache' = r.cache
       /\ selections' = selections \cup (IF r.leaf # NoNode THEN {r.leaf} ELSE {})
       /\ selHandlers' = RemoveAt(selHandlers, i)
       /\ suppressTimers' = suppressTimers \cup {SelectionResetDelay}
       /\ UNCHANGED <<groups, fsys, settingVars, activeGroupId, notEditor,
                      suppressSelectionEffects, edHandlers, activeTimers, activeSignals, storedActiveId,
                      sticky>>

\* setTimeout(() => { suppressSelectionEffects = false; }, ...)
SuppressTimerFires ==
    /\ 0 \in suppressTimers
    /\ suppressTimers' = suppressTimers \ {0}
    /\ suppressSelectionEffects' = FALSE
    /\ UNCHANGED <<groups, fsys, settingVars, activeGroupId, dirCache, notEditor,
                   edHandlers, selHandlers, selections, activeTimers, activeSignals, storedActiveId, sticky>>

\* The deferred tree-changed signal of setActiveGroup
ActiveTimerFires ==
    /\ activeTimers # <<>>
    /\ Head(activeTimers) = 0
    /\ activeTimers' = Tail(activeTimers)
    /\ activeSignals' = activeSignals + 1
    /\ UNCHANGED <<groups, fsys, settingVars, activeGroupId, dirCache, notEditor,
                   suppressSelectionEffects, edHandlers, selHandlers, suppressTimers,
                   selections, storedActiveId, sticky>>

(***************************************************************************)
(* SpecEditor: active-editor changes, the reveals and selections they      *)
(* cause, and their timers                                                 *)
(***************************************************************************)
EditorInitFs ==
    [p \in RelPaths |->
        CASE p = <<"a">> -> "dir"
          [] p \in {<<"a", "/", "a">>, <<"a", "/", "b">>, <<"a", "b">>} -> "file"
          [] OTHER -> None]

EditorGroupLists ==
    {<<Group("g1", <<<<"a">>>>), Group("g2", <<<<"a", "/", "b">>>>)>>,
     <<Group("g1", <<<<"a", "/", "a">>, <<"a">>>>), Group("g2", <<<<"a", "b">>>>)>>}

EditorUris == {ToFsUri(<<"a", "/", "a">>), ToFsUri(<<"a", "/", "b">>), ToFsUri(<<"a", "b">>)}

EditorSteps == {CacheTtl}

InitEditor ==
    /\ groups \in EditorGroupLists
    /\ fsys = EditorInitFs
    /\ displayMode \in {"name", "fullPath"}
    /\ activeGroupId \in GroupIds
    /\ collapseOthersOnActivate = FALSE
    /\ activeBehaviorEnabled = TRUE
    /\ dirCache = EmptyCache
    /\ TreeIdle
    /\ ResolveIdle
    /\ watchers = RootsOf(groups)
    /\ WatchIdle
    /\ RegistryIdle
    /\ ClickIdle
    /\ suppressSelectionEffects = FALSE
    /\ edHandlers = <<>>
    /\ selHandlers = <<>>
    /\ suppressTimers = {}
    /\ selections = {}
    /\ activeTimers = <<>>
    /\ activeSignals = 0
    /\ storedActiveId = activeGroupId
    /\ sticky = [g |-> activeGroupId, events |-> 0, ok |-> TRUE, both |-> FALSE]
    /\ ActiveIdle

NextEditor ==
    \/ \E uri \in EditorUris : EditorChanged(uri)
    \/ \E i \in 1..Len(edHandlers) : EditorReveal(i)
    \/ \E i \in 1..Len(edHandlers) : EditorRetry(i)
    \/ \E node \in selections : SelectionDelivered(node)
    \/ \E i \in 1..Len(selHandlers) : SelectionResume(i)
    \/ SuppressTimerFires
    \/ ActiveTimerFires
    \/ \E d \in EditorSteps : Advance(d)

SpecEditor == InitEditor /\ [][NextEditor]_vars

(***************************************************************************)
(* SpecActive: the commands that set and clear the active group, with no   *)
(* file in the active editor; one change of the settings of the view; the  *)
(* timers                                                                  *)
(***************************************************************************)
\* 'subExplorer.setActiveGroup' on the group node of id, or
\* 'subExplorer.clearActiveGroup' when id is None
ActiveGroupCommand(id) ==
    \E a \in {SetActiveGroup(id)} :
       /\ a = Provider \/ activeSignals + Len(activeTimers) < MaxSignals
       /\ activeGroupId' = a.active
       /\ storedActiveId' = a.stored
       /\ activeSignals' = a.signals
       /\ activeTimers' = a.timers
       /\ lastSet' = [called |-> TRUE, id |-> id,
                      enabled |-> activeBehaviorEnabled,
                      collapse |-> collapseOthersOnActivate,
                      before |-> Provider,
                      after |-> Snapshot(activeGroupId', storedActiveId',
                                         activeSignals', activeTimers')]
       /\ switches' = SwitchesAfter(Provider, a, collapseOthersOnActivate)
       /\ UNCHANGED <<groups, fsys, settingVars, dirCache, treeVars, resolved, docVars, clickVars, watchVars, watchObs,
                      registryVars,
                      suppressSelectionEffects, edHandlers, selHandlers, suppressTimers,
                      selections, sticky>>

ActiveGroupLists == {<<Group("g1", <<<<"a">>>>), Group("g2", <<<<"b">>>>)>>}
ActiveSteps == {ActiveSignalDelay \div 2}

InitActive ==
    /\ groups \in ActiveGroupLists
    /\ fsys = WatchInitFs
    /\ displayMode = "name"
    /\ activeGroupId \in GroupIds \cup {None}
    /\ collapseOthersOnActivate \in BOOLEAN
    /\ activeBehaviorEnabled \in BOOLEAN
    /\ dirCache = EmptyCache
    /\ TreeIdle
    /\ ResolveIdle
    /\ watchers = RootsOf(groups)
    /\ WatchIdle
    /\ RegistryIdle
    /\ EditorIdle
    /\ ActiveIdle

NextActive ==
    \/ \E id \in GroupIds \cup {None} : ActiveGroupCommand(id)
    \/ \E collapse \in BOOLEAN, enabled \in BOOLEAN :
          /\ burst.pure
          /\ collapse # collapseOthersOnActivate \/ enabled # activeBehaviorEnabled
          /\ SettingsChanged(displayMode, collapse, enabled)
    \/ RefreshTimerFires
    \/ ActiveTimerFires
    \/ \E d \in ActiveSteps : Advance(d)

SpecActive == InitActive /\ [][NextActive]_vars

(***************************************************************************)
(* SpecMember: the active group is set and cleared from the group nodes of *)
(* the view while groups are deleted and the document is reloaded          *)
(***************************************************************************)
MemberGroupLists ==
    {<<Group("g1", <<<<"a">>>>)>>,
     <<Group("g1", <<<<"a">>>>), Group("g2", <<<<"b">>>>)>>}

InitMember ==
    /\ groups \in MemberGroupLists
    /\ fsys = WatchInitFs
    /\ displayMode = "name"
    /\ activeGroupId \in GroupIdsOf(groups) \cup {None}
    /\ collapseOthersOnActivate = FALSE
    /\ activeBehaviorEnabled = TRUE
    /\ dirCache = EmptyCache
    /\ TreeIdle
    /\ ResolveIdle
    /\ watchers = RootsOf(groups)
    /\ WatchIdle
    /\ RegistryIdle
    /\ EditorIdle
    /\ ActiveIdle

NextMember ==
    \/ \E id \in GroupIdsOf(groups) \cup {None} : ActiveGroupCommand(id)
    \/ \E gid \in GroupIdsOf(groups) : DeleteGroupLoad(gid)
    \/ \E i \in 1..Len(cmds), ok \in BOOLEAN : DeleteGroupFinish(i, ok)
    \/ \E d \in MemberGroupLists : DocChanges(d)
    \/ \E i \in 1..Len(reloads) : ReloadReads(i)
    \/ \E i \in 1..Len(reloads) : ReloadResumes(i)

SpecMember == InitMember /\ [][NextMember]_vars

(***************************************************************************)
(* C1: in flat mode the children of a group are one item node per declared *)
(* root whose stat succeeds, in the order of the root list, and no node    *)
(* for a root whose stat fails.                                            *)
(***************************************************************************)
C1_FlatChildrenInDeclaredOrder ==
    FlatGroupCall =>
        LET existing == SelectSeq(ElementGroup.items, Exists)
        IN /\ Len(children) = Len(existing)
           /\ \A i \in 1..Len(children) :
                 /\ children[i].type = "item"
                 /\ children[i].groupId = element.groupId
                 /\ children[i].rootRel = existing[i]
                 /\ children[i].resourceUri = WsRoot \o Slash \o existing[i]

\* Three roots declared out of alphabetical order, the middle one missing
C1_Witness ==
    /\ FlatGroupCall
    /\ ElementGroup.items = << <<"b">>, <<"a", "/", "a">>, <<"a">> >>
    /\ fsys[<<"b">>] = "file" /\ fsys[<<"a">>] = "file"
    /\ [i \in 1..Len(children) |-> children[i].label] = << <<"b">>, <<"a">> >>

(***************************************************************************)
(* C2 as stated: in hierarchical mode the children at a prefix are exactly *)
(* one path node per distinct first segment remaining after the prefix.    *)
(***************************************************************************)
C2_OneNodePerFirstSegment ==
    PathCall =>
        /\ Labels(children) = FirstSegments(ElementGroup, PathCallPrefix)
        /\ Cardinality(Labels(children)) = Len(children)
        /\ \A i \in 1..Len(children) : children[i].type = "path"

(***************************************************************************)
(* C2 amended: one path node per distinct first segment, except that a     *)
(* segment whose accumulated path is itself a declared root gets a node    *)
(* only when that path exists on disk; so roots a/a and a/b that exist     *)
(* give one non-terminal node a whose children are a and b.                *)
(***************************************************************************)
C2_OneNodePerExistingFirstSegment ==
    PathCall =>
        LET prefix == PathCallPrefix
            accumulated(seg) == IF prefix = <<>> THEN seg ELSE prefix \o Slash \o seg
            shown == {seg \in FirstSegments(ElementGroup, prefix) :
                        accumulated(seg) \in Range(ElementGroup.items) => Exists(accumulated(seg))}
        IN /\ Labels(children) = shown
           /\ Cardinality(Labels(children)) = Len(children)
           /\ \A i \in 1..Len(children) :
                 /\ children[i].type = "path"
                 /\ children[i].groupId = element.groupId
                 /\ children[i].rootRel = accumulated(children[i].label)

\* Roots a/a and a/b: the call for the one non-terminal node a returned a and b
C2_Witness ==
    /\ PathCall
    /\ element.type = "path" /\ element.label = <<"a">> /\ ~element.isTerminal
    /\ ElementGroup.items = << <<"a", "/", "b">>, <<"a", "/", "a">> >>
    /\ [i \in 1..Len(children) |-> children[i].label] = << <<"a">>, <<"b">> >>

(***************************************************************************)
(* C3: a segment node is terminal exactly when some root of the group      *)
(* equals its accumulated path, whatever the order of the roots.           *)
(***************************************************************************)
C3_TerminalIffDeclaredRoot ==
    PathCall =>
        \A i \in 1..Len(children) :
            children[i].isTerminal <=> (children[i].rootRel \in Range(ElementGroup.items))

\* Root a/b declared before root a: the node of a is terminal
C3_Witness ==
    /\ PathCall /\ element.type = "group"
    /\ ElementGroup.items = << <<"a", "/", "b">>, <<"a">> >>
    /\ Len(children) = 1
    /\ children[1].label = <<"a">> /\ children[1].isTerminal

(***************************************************************************)
(* C4: findGroupIdForUri returns a group only if that group has a root     *)
(* that is the path or an ancestor of it segment by segment, and returns   *)
(* undefined exactly when no group has such a root.                        *)
(***************************************************************************)
C4_OwnerIsRelated ==
    resolved.called =>
        /\ resolved.gid # None => resolved.gid \in MatchingGroupIds(resolved.uri)
        /\ resolved.gid = None <=> Matches(resolved.uri) = {}

\* Root a does not own the path ab/a, of which it is a string prefix
C4_Witness ==
    /\ resolved.called
    /\ resolved.uri = ToFsUri(<<"a", "b", "/", "a">>)
    /\ groups[1].items = << <<"a">> >> /\ groups[2].items = << <<"a", "/", "a">> >>
    /\ resolved.gid = None

(***************************************************************************)
(* C5: among several matches the preferred group wins whenever it matches, *)
(* whatever the root lengths; otherwise the result owns a matching root of *)
(* maximal absolute length.                                                *)
(***************************************************************************)
C5_PreferredThenLongest ==
    (resolved.called /\ Matches(resolved.uri) # {}) =>
        IF resolved.prefer \in MatchingGroupIds(resolved.uri)
        THEN resolved.gid = resolved.prefer
        ELSE \E m \in Matches(resolved.uri) :
                /\ groups[m[1]].id = resolved.gid
                /\ \A n \in Matches(resolved.uri) : AbsLength(n[2]) <= AbsLength(m[2])

\* The preferred group g1 matches with the shorter root and is returned
C5_Witness ==
    /\ resolved.called
    /\ resolved.uri = ToFsUri(<<"a", "/", "b">>)
    /\ resolved.prefer = "g1"
    /\ groups[1].items = << <<"a">> >> /\ groups[2].items = << <<"a", "/", "b">> >>
    /\ resolved.gid = "g1"

(***************************************************************************)
(* C6: two readDirCached calls for one path, the second issued less than   *)
(* 3 s after the first and with no invalidation in between, are answered   *)
(* with the same entries array and by one directory listing, also when the *)
(* second is issued before the first listing has resolved.                 *)
(***************************************************************************)
C6_SameEntriesWithinTtl ==
    lastGet.inWindow => (lastGet.hit /\ lastGet.lid = lastGet.expectLid)

(***************************************************************************)
(* C7: a burst of watcher events, each less than 150 ms after the one      *)
(* before and with nothing else arming the timer, gives exactly one        *)
(* tree-changed signal, 150 ms after the last event: until then no signal  *)
(* has fired and one timer is armed for that moment; from then on the      *)
(* signal has fired once and no timer is left.                             *)
(***************************************************************************)
C7_OneSignalAfterLastEvent ==
    (burst.since >= 0 /\ burst.pure) =>
        IF burst.since < DebounceDelay
        THEN burst.signals = 0 /\ pendingRefresh = {DebounceDelay - burst.since}
        ELSE \/ burst.signals = 0 /\ pendingRefresh = {0}
             \/ burst.signals = 1 /\ pendingRefresh = {}

\* A burst of two events or more has given its one signal
C7_Witness ==
    burst.pure /\ burst.events = 2 /\ burst.since = DebounceDelay /\ burst.signals = 1

(***************************************************************************)
(* C8: after a watcher event no readDirCached call is answered from a      *)
(* listing that was started before the event.                              *)
(***************************************************************************)
C8_NoAnswerFromListingBeforeEvent == lastGet.hit => ~lastGet.stale

(***************************************************************************)
(* C9: addItem of one path p into a group and then removeItem of p, with   *)
(* no other command in between, leave the group's roots as they were       *)
(* before the add.                                                         *)
(***************************************************************************)
C9_AddThenRemoveRestores ==
    trip.stage = "removed" => ItemsOf(groups, trip.gid) = trip.before

\* The same for a path that was not among the group's roots before the add
C9_AddNewThenRemoveRestores ==
    (trip.stage = "removed" /\ ToRelPath(trip.uri) \notin Range(trip.before)) =>
        ItemsOf(groups, trip.gid) = trip.before

\* A path written with a backslash was added to a group of two roots and
\* removed again
C9_Witness ==
    /\ trip.stage = "removed"
    /\ trip.uri = WsRoot \o <<"/", "a", "\\", "b">>
    /\ trip.before = <<<<"b">>, <<"a">>>>
    /\ ItemsOf(groups, trip.gid) = trip.before

(***************************************************************************)
(* C10: as long as every file that becomes the active file lies under a    *)
(* root of the active group, the active group stays the one it was, at     *)
(* every moment of the handling and after its timers; so it does when the  *)
(* file lies under a root of another group as well.                        *)
(***************************************************************************)
C10_ActiveGroupSticks == sticky.ok => activeGroupId = sticky.g

\* A file under roots of both groups was opened and its handling is over,
\* timers included
C10_Witness ==
    /\ sticky.ok /\ sticky.both
    /\ edHandlers = <<>> /\ selHandlers = <<>> /\ selections = {}
    /\ suppressTimers = {} /\ activeTimers = <<>>
    /\ ~suppressSelectionEffects
    /\ activeGroupId = sticky.g

(***************************************************************************)
(* C11: setActiveGroup(id) leaves the active group, the stored id, the     *)
(* signals fired and the timers armed as they were when the feature is off *)
(* and id is a group id, or when id is the active id already; in every     *)
(* other case, id undefined with the feature off included, id becomes the  *)
(* active and the stored id, and a tree-changed signal is fired at once    *)
(* when collapseOthersOnActivate is on, or else a timer is armed that      *)
(* fires it 250 ms later.                                                  *)
(***************************************************************************)
C11_SetActiveGroupEffect ==
    lastSet.called =>
        IF (~lastSet.enabled /\ lastSet.id # None) \/ lastSet.id = lastSet.before.active
        THEN lastSet.after = lastSet.before
        ELSE /\ lastSet.after.active = lastSet.id
             /\ lastSet.after.stored = lastSet.id
             /\ IF lastSet.collapse
                THEN /\ lastSet.after.signals = lastSet.before.signals + 1
                     /\ lastSet.after.timers = lastSet.before.timers
                ELSE /\ lastSet.after.signals = lastSet.before.signals
                     /\ lastSet.after.timers =
                            Append(lastSet.before.timers, ActiveSignalDelay)

\* The active group was cleared while the feature was off, and the deferred
\* signal of that call has fired
C11_Witness ==
    /\ lastSet.called /\ ~lastSet.enabled /\ lastSet.id = None
    /\ lastSet.before.active = "g1" /\ ~lastSet.collapse
    /\ activeGroupId = None /\ storedActiveId = None
    /\ activeTimers = <<>> /\ activeSignals = lastSet.before.signals + 1

(***************************************************************************)
(* C12: with collapseOthersOnActivate off, a burst of switches of the      *)
(* active group, each less than 250 ms after the one before, gives exactly *)
(* one tree-changed signal, 250 ms after the last switch: until then no    *)
(* signal has fired and one timer is armed for that moment; from then on   *)
(* the signal has fired once and no timer is left.                         *)
(***************************************************************************)
C12_OneSignalAfterLastSwitch ==
    (switches.n >= 1 /\ switches.alone) =>
        IF switches.since < ActiveSignalDelay
        THEN /\ activeSignals = switches.base
             /\ activeTimers = <<ActiveSignalDelay - switches.since>>
        ELSE \/ activeSignals = switches.base /\ activeTimers = <<0>>
             \/ activeSignals = switches.base + 1 /\ activeTimers = <<>>

(***************************************************************************)
(* C13: when the write of the document fails in a registry mutation, the   *)
(* groups of the provider are what they were before and the failure        *)
(* reaches the command service as the rejection of the command.            *)
(***************************************************************************)
C13_FailedWriteLeavesGroupsAndRejects ==
    failure.happened => (groups = failure.before /\ failure.surfaced)

\* What the mutation of a command makes of a document
Mutation(d, op) ==
    LET cfg == LoadConfig(d)
        group == FindGroupIn(cfg, op.gid)
    IN CASE op.kind = "addItem" ->
              IF op.arg = <<>> \/ group = NoGroup THEN d
              ELSE SetItems(cfg, op.gid, PushPicks(group.items, op.arg))
         [] op.kind = "removeItem" ->
              IF group = NoGroup \/ ToRelPath(op.arg) = <<>> THEN d
              ELSE SetItems(cfg, op.gid, FilterOut(group.items, ToRelPath(op.arg)))
         [] OTHER ->
              IF group = NoGroup THEN d
              ELSE SetItems(cfg, op.gid, FilterOut(group.items, op.arg))

(***************************************************************************)
(* C14: when two commands overlap, the second loading the document before  *)
(* the first has written it, the document after both have ended is what    *)
(* the two mutations make of the first document, one after the other in    *)
(* one of the two orders.                                                  *)
(***************************************************************************)
C14_OverlappingCommandsSerialize ==
    (pair.valid /\ pair.n = 2 /\ Len(pair.ops) = 2) =>
        doc \in {Mutation(Mutation(pair.doc0, pair.ops[1]), pair.ops[2]),
                 Mutation(Mutation(pair.doc0, pair.ops[2]), pair.ops[1])}

C17_RevealReachesExistingTarget ==
    (/\ revealed.called
     /\ revealed.gid # None
     /\ FindGroup(revealed.gid) # NoGroup
     /\ Stat(revealed.uri) = "file"
     /\ \E i \in 1..Len(FindGroup(revealed.gid).items) :
            Owns(FindGroup(revealed.gid).items[i], revealed.uri))
    => (revealed.leaf # NoNode /\ revealed.leaf.resourceUri = revealed.uri)

\* Nested roots a and a/b in hierarchical mode: the file a/b is reached
\* through the terminal path node a and the listing of a
C17_Witness ==
    /\ revealed.called
    /\ displayMode = "fullPath"
    /\ ItemsOf(groups, "g1") = <<<<"a">>, <<"a", "/", "b">>>>
    /\ revealed.gid = "g1"
    /\ revealed.uri = ToFsUri(<<"a", "/", "b">>)
    /\ Stat(revealed.uri) = "file"
    /\ revealed.leaf.type = "fs"
    /\ revealed.leaf.resourceUri = revealed.uri

(***************************************************************************)
(* C18 as stated: no node is displayed for a declared root or for an       *)
(* intermediate path segment that does not exist on disk: every item node  *)
(* of flat mode and every path node of hierarchical mode, terminal or not, *)
(* stands for a path that exists.                                          *)
(***************************************************************************)
C18_NoNodeForMissingPath ==
    (FlatGroupCall \/ PathCall) =>
        \A i \in 1..Len(children) : Exists(children[i].rootRel)

(***************************************************************************)
(* C18 amended: a declared root that does not exist on disk gets no item   *)
(* node in flat mode and no terminal path node in hierarchical mode; a     *)
(* non-terminal segment is given its path node without a stat, whether or  *)
(* not it exists on disk.  No call raises an error.                        *)
(***************************************************************************)
C18_NoNodeForMissingRoot ==
    /\ (FlatGroupCall \/ PathCall) =>
          \A i \in 1..Len(children) :
             (children[i].type = "item" \/ children[i].isTerminal)
                => Exists(children[i].rootRel)
    /\ PathCall =>
          \A r \in RootsBelow(ElementGroup, PathCallPrefix) :
             LET at == Len(Segs(PathCallPrefix)) + 1
             IN (\A q \in RootsBelow(ElementGroup, PathCallPrefix) :
                    Segs(q)[at] = Segs(r)[at] => Len(Segs(q)) > at)
                => \E i \in 1..Len(children) :
                      children[i].label = Segs(r)[at] /\ ~children[i].isTerminal

\* Roots b and a/a on a disk where neither b nor a exists: the group shows
\* the non-terminal node a and nothing for b
C18_Witness ==
    /\ PathCall /\ element.type = "group"
    /\ ElementGroup.items = << <<"b">>, <<"a", "/", "a">> >>
    /\ ~Exists(<<"b">>) /\ ~Exists(<<"a">>)
    /\ Len(children) = 1
    /\ children[1].label = <<"a">> /\ ~children[1].isTerminal

\* The last call asked for the children of a flat root item, of a file
\* system node or of a terminal path node
ListingCall ==
    \/ element.type \in {"item", "fs"}
    \/ element.type = "path" /\ element.isTerminal

(***************************************************************************)
(* C19: the children of a terminal path node, of a flat root item and of a *)
(* file system node are exactly the entries of the directory listing, all  *)
(* of kind fs, in label order, never path nodes; a root a/b below a        *)
(* terminal root a shows only as the entry b of the listing of a.          *)
(***************************************************************************)
C19_ChildrenAreTheListing ==
    ListingCall =>
        LET entries == IF Stat(element.resourceUri) = "dir"
                       THEN DirEntries(element.resourceUri) ELSE {}
        IN /\ Len(children) = Cardinality(entries)
           /\ \A i \in 1..Len(children) :
                 /\ children[i].type = "fs"
                 /\ children[i].groupId = element.groupId
                 /\ children[i].resourceUri = PathJoin(element.resourceUri, children[i].label)
                 /\ <<children[i].label,
                      IF children[i].collapsibleState = "Collapsed" THEN "dir" ELSE "file">>
                       \in entries
           /\ \A i, j \in 1..Len(children) : i < j => children[i].label # children[j].label

\* Roots a and a/b in hierarchical mode: the terminal node a lists the
\* entries a and b of the directory, both as file system nodes
C19_Witness ==
    /\ ListingCall
    /\ displayMode = "fullPath"
    /\ element.type = "path" /\ element.rootRel = <<"a">>
    /\ ElementGroup.items = << <<"a">>, <<"a", "/", "b">> >>
    /\ Len(children) = 2
    /\ children[1].label = <<"a">> /\ children[2].label = <<"b">>
    /\ children[2].type = "fs"

(***************************************************************************)
(* C20: when the stat or the directory listing that getChildren makes for  *)
(* a node rejects, the call returns the empty list and writes nothing to   *)
(* the directory cache, so that the next call for the node lists again.    *)
(***************************************************************************)
C20_FailedListingIsEmptyAndNotCached ==
    listed.fails =>
        /\ children = <<>>
        /\ ~listed.stored
        /\ element.type \in {"item", "fs"} => ~CacheHit(dirCache, element.resourceUri)

\* The terminal path node of a root that was deleted after it was shown:
\* its stat rejects and the call returns nothing
C20_Witness ==
    /\ listed.fails
    /\ element.type = "path" /\ element.isTerminal
    /\ Stat(element.resourceUri) = None
    /\ children = <<>>
    /\ ~listed.stored

\* The text of the file of the last load is a JSON object without 'groups'
NoGroupsField ==
    /\ loaded.file.state = "present"
    /\ JsonParse(loaded.file.text).ok
    /\ JsonParse(loaded.file.text).kind = "object"
    /\ JsonParse(loaded.file.text).groups = NoMember

(***************************************************************************)
(* C21: loadConfig never raises; it returns no groups when the document is *)
(* missing, unreadable, no valid JSON, or only the first part of what a    *)
(* save writes; and an object without a groups member loads as no groups.  *)
(***************************************************************************)
C21_LoadConfigNeverRaises ==
    loaded.called =>
        /\ ~loaded.raised
        /\ loaded.file.state # "present" => loaded.groups = <<>>
        /\ ~JsonParse(loaded.file.text).ok => loaded.groups = <<>>
        /\ loaded.file.partial =>
              (~JsonParse(loaded.file.text).ok /\ loaded.groups = <<>>)
        /\ NoGroupsField => loaded.groups = <<>>

\* The load of a document of two groups cut off in the middle of its array
C21_Witness ==
    /\ loaded.called
    /\ loaded.file.partial
    /\ Len(loaded.file.text) = 5
    /\ loaded.file.text[5] = Tok(",")
    /\ ~loaded.raised /\ loaded.groups = <<>>

(***************************************************************************)
(* C26 as stated: every root that a load of a document gives the provider  *)
(* is written with forward slashes and has no trailing slash.              *)
(***************************************************************************)
C26_LoadedRootsAreNormalized ==
    \A i \in 1..Len(loaded.groups) :
       \A r \in Range(loaded.groups[i].items) :
          /\ "\\" \notin Range(r)
          /\ r # <<>> => r[Len(r)] # "/"

(***************************************************************************)
(* C22: after every completed reload the live watchers are one for every   *)
(* root that the groups of the provider declare, in the order of the       *)
(* declarations: the watchers of the earlier reloads are disposed and no   *)
(* declared root is without its watcher, also when two reloads overlap.    *)
(***************************************************************************)
C22_OneWatcherPerDeclaredRoot ==
    /\ Len(watchers) = Len(RootsOf(groups))
    /\ \A i \in 1..Len(groups) : \A r \in Range(groups[i].items) :
          Cardinality({k \in 1..Len(watchers) : watchers[k] = r})
             = Cardinality({j \in 1..Len(groups) : r \in Range(groups[j].items)})

\* Two reloads overlapped, the later one ended first, and the last to end
\* replaced three watchers by one
C22_Witness ==
    /\ reloads = <<>>
    /\ groups = <<Group("g1", <<<<"a">>>>)>>
    /\ doc = <<Group("g1", <<<<"a", "/", "b">>>>), Group("g2", <<<<"b">>, <<"a">>>>)>>
    /\ watchers = << <<"a">> >>

(***************************************************************************)
(* C28 as stated: when every reload that the changes of the document have  *)
(* triggered has completed, the groups of the provider are the groups of   *)
(* the document as it is now, also when two reloads overlap and the read   *)
(* that started first resolves last.                                       *)
(***************************************************************************)
C28_GroupsAreTheCurrentDocument ==
    reloads = <<>> => groups = LoadConfig(doc)

\* No group of the list holds the same root twice
NoDupItems(cfg) ==
    \A i \in 1..Len(cfg) :
       \A a, b \in 1..Len(cfg[i].items) : a # b => cfg[i].items[a] # cfg[i].items[b]

AddKinds == {"addItem", "addSelectedToGroup"}

\* The paths the last command was given
PickedRels == {ToRelPath(lastOp.arg[k]) : k \in 1..Len(lastOp.arg)} \ {<<>>}

(***************************************************************************)
(* C23 as stated: from a document in which no group has the same root      *)
(* twice, no sequence or interleaving of commands writes a document in     *)
(* which a group has the same root twice.                                  *)
(***************************************************************************)
C23_NoDuplicateRoots ==
    NoDupItems(lastOp.doc0) => NoDupItems(doc)

(***************************************************************************)
(* C23 amended: from a document in which no group has two roots with the   *)
(* same forward-slash form, no sequence or interleaving of commands gives  *)
(* a group the same root twice, in the document or in the provider; an     *)
(* add keeps the roots there were in their order, appends the new ones,    *)
(* and changes nothing when every path given is already a root.            *)
(***************************************************************************)
C23_NoDuplicateNormalizedRoots ==
    NoDupItems(LoadConfig(lastOp.doc0)) =>
        /\ NoDupItems(doc)
        /\ NoDupItems(groups)
        /\ \A i \in 1..Len(cmds) : NoDupItems(cmds[i].cfg)
        /\ (lastOp.kind \in AddKinds /\ FindGroupIn(lastOp.before, lastOp.gid) # NoGroup) =>
              /\ Len(ItemsOf(lastOp.after, lastOp.gid)) >= Len(ItemsOf(lastOp.before, lastOp.gid))
              /\ SubSeq(ItemsOf(lastOp.after, lastOp.gid), 1,
                        Len(ItemsOf(lastOp.before, lastOp.gid)))
                    = ItemsOf(lastOp.before, lastOp.gid)
              /\ Range(ItemsOf(lastOp.after, lastOp.gid))
                    = Range(ItemsOf(lastOp.before, lastOp.gid)) \cup PickedRels
              /\ PickedRels \subseteq Range(ItemsOf(lastOp.before, lastOp.gid))
                    => lastOp.after = lastOp.before

\* addItem of a and a/b to the roots b, a: only a/b is appended
C23_Witness ==
    /\ lastOp.kind = "addItem" /\ lastOp.gid = "g1" /\ lastOp.wrote
    /\ lastOp.arg = <<ToFsUri(<<"a">>), ToFsUri(<<"a", "/", "b">>)>>
    /\ ItemsOf(lastOp.before, "g1") = << <<"b">>, <<"a">> >>
    /\ ItemsOf(doc, "g1") = << <<"b">>, <<"a">>, <<"a", "/", "b">> >>

\* How often a group is in a list
Count(cfg, g) == Cardinality({k \in 1..Len(cfg) : cfg[k] = g})

(***************************************************************************)
(* C24: moveGroupUp and moveGroupDown swap the group with its neighbour in *)
(* the direction of the move and change nothing else; for the first group  *)
(* moved up and the last moved down the list stays as it is and the        *)
(* document is not written; the list after is a permutation of the list    *)
(* before.                                                                 *)
(***************************************************************************)
C24_MoveSwapsWithNeighbour ==
    (lastOp.kind \in MoveKinds) =>
        LET idx == IndexOfGroup(lastOp.before, lastOp.gid)
            sw == idx + MoveDir(lastOp.kind)
        IN /\ Len(lastOp.after) = Len(lastOp.before)
           /\ \A g \in Range(lastOp.before) \cup Range(lastOp.after) :
                 Count(lastOp.after, g) = Count(lastOp.before, g)
           /\ IF idx >= 1 /\ sw >= 1 /\ sw <= Len(lastOp.before)
              THEN /\ lastOp.wrote
                   /\ doc = lastOp.after
                   /\ lastOp.after[sw] = lastOp.before[idx]
                   /\ lastOp.after[idx] = lastOp.before[sw]
                   /\ \A k \in 1..Len(lastOp.before) :
                         k \notin {idx, sw} => lastOp.after[k] = lastOp.before[k]
              ELSE /\ ~lastOp.wrote
                   /\ lastOp.after = lastOp.before
                   /\ doc = lastOp.docBefore

\* The first of two groups was moved down
C24_Witness ==
    /\ lastOp.kind = "moveGroupDown" /\ lastOp.gid = "g1" /\ lastOp.wrote
    /\ Len(lastOp.before) = 2
    /\ lastOp.before[1].id = "g1"
    /\ doc[1].id = "g2" /\ doc[2] = lastOp.before[1]

\* The ids of the groups of a list
IdsOf(cfg) == {cfg[k].id : k \in 1..Len(cfg)}

(***************************************************************************)
(* C25: copyGroup appends one group, with an id that no group of the       *)
(* document has and a root list equal to that of the source in the copy    *)
(* the command loaded, and leaves the groups there were as they are; a     *)
(* later add or remove of roots changes the group it is aimed at and no    *)
(* other, so the source and its copy do not change each other.             *)
(***************************************************************************)
C25_CopyIsIndependent ==
    /\ (lastOp.kind = "copyGroup" /\ lastOp.wrote) =>
          /\ Len(lastOp.after) = Len(lastOp.before) + 1
          /\ SubSeq(lastOp.after, 1, Len(lastOp.before)) = lastOp.before
          /\ lastOp.after[Len(lastOp.after)].id \notin IdsOf(lastOp.before)
          /\ lastOp.after[Len(lastOp.after)].id \notin IdsOf(lastOp.docBefore)
          /\ lastOp.after[Len(lastOp.after)].items = ItemsOf(lastOp.before, lastOp.gid)
          /\ doc = lastOp.after
    /\ (lastOp.kind \in AddKinds \cup {"removeItem"}) =>
          /\ Len(lastOp.after) = Len(lastOp.before)
          /\ \A k \in 1..Len(lastOp.before) :
                k # IndexOfGroup(lastOp.before, lastOp.gid)
                   => lastOp.after[k] = lastOp.before[k]

\* Group g1 with the root a was copied and a/b was then added to the copy
C25_Witness ==
    /\ lastOp.kind = "addItem" /\ lastOp.gid = Uuid(1) /\ lastOp.wrote
    /\ ItemsOf(lastOp.before, Uuid(1)) = << <<"a">> >>
    /\ ItemsOf(doc, Uuid(1)) = << <<"a">>, <<"a", "/", "b">> >>
    /\ ItemsOf(doc, "g1") = << <<"a">> >>

\* The children of the node the walk of the last reveal ended at
ChildrenOfLast == GetChildren(revealed.last, dirCache).nodes

(***************************************************************************)
(* C30: every node a reveal returns has the target's absolute path; when   *)
(* neither the node the walk reached nor any of its direct children has    *)
(* exactly the target's path, the reveal returns undefined.                *)
(***************************************************************************)
C30_RevealReturnsTheTargetOrNothing ==
    revealed.called =>
       /\ revealed.leaf # NoNode => revealed.leaf.resourceUri = revealed.uri
       /\ (/\ revealed.last # NoNode
           /\ revealed.last.resourceUri # revealed.uri
           /\ \A i \in 1..Len(ChildrenOfLast) :
                 ChildrenOfLast[i].resourceUri # revealed.uri)
          => revealed.leaf = NoNode
       /\ revealed.last = NoNode => revealed.leaf = NoNode

\* The walk for a/a under root a ended at the item of a, a directory that
\* holds a/b alone: neither a nor a/b is the target, and the reveal returned
\* undefined
C30_Witness ==
    /\ revealed.called
    /\ revealed.uri = ToFsUri(<<"a", "/", "a">>)
    /\ revealed.last # NoNode
    /\ revealed.last.resourceUri = ToFsUri(<<"a">>)
    /\ Len(ChildrenOfLast) = 1
    /\ ChildrenOfLast[1].resourceUri = ToFsUri(<<"a", "/", "b">>)
    /\ revealed.leaf = NoNode

(***************************************************************************)
(* C29 as stated: handling active-editor changes never changes the active  *)
(* group, for any file and also when several events and their flag-reset   *)
(* timers overlap: the selections made by the reveals of the handler are   *)
(* always suppressed and never reach setActiveGroup.                       *)
(***************************************************************************)
C29_EditorEventsKeepActiveGroup == activeGroupId = sticky.g

\* The children of the last call are in ascending order of label under the
\* order Less
Ascending(Less(_, _)) ==
    \A i \in 1..(Len(children) - 1) : Less(children[i].label, children[i + 1].label)

\* The children of the last call, a flat call on a group, are the roots of
\* the group that exist, in the order of their declaration
DeclaredOrder ==
    [i \in 1..Len(children) |-> children[i].rootRel] = SelectSeq(ElementGroup.items, Exists)

(***************************************************************************)
(* C27 as stated: the sibling path nodes of hierarchical mode and the      *)
(* children taken from a directory listing are in ascending order of label *)
(* under a case-sensitive ordering (the order of the strings by code       *)
(* units, upper case before lower case); the root items of flat mode are   *)
(* in declaration order.                                                   *)
(***************************************************************************)
C27_SiblingsInCaseSensitiveOrder ==
    /\ (PathCall \/ ListingCall) => Ascending(CodeUnitLess)
    /\ FlatGroupCall => DeclaredOrder

(***************************************************************************)
(* C27 amended: the sibling path nodes of hierarchical mode and the        *)
(* children taken from a directory listing are in ascending order of label *)
(* under the collation of localeCompare in the host's default locale: the  *)
(* letters decide whatever their case (a before B), and between two labels *)
(* of the same letters the lower case comes first (a before A).  The root  *)
(* items of flat mode are in declaration order.                            *)
(***************************************************************************)
C27_SiblingsInCollationOrder ==
    /\ (PathCall \/ ListingCall) => Ascending(LocaleLess)
    /\ FlatGroupCall => DeclaredOrder

\* Roots B/a and a in hierarchical mode: the group shows a before B
C27_Witness ==
    /\ PathCall /\ element.type = "group"
    /\ ElementGroup.items = << <<"B", "/", "a">>, <<"a">> >>
    /\ [i \in 1..Len(children) |-> children[i].label] = << <<"a">>, <<"B">> >>

NodeUnder(uri, gid) == RevealFrom(uri, gid, EmptyCache).leaf

\* The group findGroupIdForUri names for uri when it prefers the active group
OwnerOf(uri) == FindGroupIdForUri(groups, uri, activeGroupId)

\* The node the handler of an active-editor change is to reveal for uri: the
\* node under the active group, or else the node under the other group that
\* findGroupIdForUri names, or else none
FallbackNode(uri) ==
    IF NodeUnder(uri, activeGroupId) # NoNode THEN NodeUnder(uri, activeGroupId)
    ELSE IF OwnerOf(uri) # None /\ OwnerOf(uri) # activeGroupId
    THEN NodeUnder(uri, OwnerOf(uri))
    ELSE NoNode

\* Run i of the handler makes its reveals in this step and finds a node
RevealFinds(i) ==
    /\ edHandlers[i].pc = "reveal"
    /\ Len(edHandlers') = Len(edHandlers)
    /\ edHandlers'[i].pc = "retry1"

\* Run i of the handler makes its reveals in this step, finds no node and ends
RevealFindsNothing(i) ==
    /\ edHandlers[i].pc = "reveal"
    /\ edHandlers' = RemoveAt(edHandlers, i)

MaxDepth == 4

\* The places of the tree below node el, to the depth d: a place is the way
\* to it from the root, as the indexes of the children taken, with the id of
\* the node found there
RECURSIVE PlacesBelow(_, _, _, _)
PlacesBelow(el, kids, way, d) ==
    IF d = 0 THEN {}
    ELSE UNION {{[way |-> Append(way, i), id |-> kids[i].id]}
                \cup PlacesBelow(kids[i], GetChildren(kids[i], dirCache).nodes,
                                 Append(way, i), d - 1) : i \in 1..Len(kids)}

\* The places the host reaches by expanding the tree from the root
Places == PlacesBelow(NoNode, GetChildren(NoNode, dirCache).nodes, <<>>, MaxDepth)

(***************************************************************************)
(* C33 as stated: in each display mode the ids of the nodes reached by     *)
(* expanding the tree from the root are pairwise distinct: no two places   *)
(* of the tree carry the same id, also when a group declares nested roots. *)
(***************************************************************************)
C33_NodeIdsAreDistinct ==
    \A p \in Places : \A q \in Places : p.id = q.id => p.way = q.way

(***************************************************************************)
(* C34: getParent is the inverse of getChildren: for every node c that     *)
(* getChildren(p) returned, with p a group, item, path or file system      *)
(* node, getParent(c) is a node with the id and the type of p; getParent   *)
(* of a group node is undefined.                                           *)
(***************************************************************************)
C34_GetParentInvertsGetChildren ==
    \A i \in 1..Len(children) :
       IF element = NoNode THEN GetParent(children[i]) = NoNode
       ELSE /\ GetParent(children[i]).id = element.id
            /\ GetParent(children[i]).type = element.type

\* The file a/a/a listed below the file system node of a/a, two levels below
\* the root a of flat mode: its parent is the file system node of a/a
C34_Witness ==
    /\ displayMode = "name"
    /\ element.type = "fs" /\ element.rootRel = <<"a">>
    /\ element.resourceUri = ToFsUri(<<"a", "/", "a">>)
    /\ Len(children) = 1
    /\ GetParent(children[1]).id = <<"fs", "g1", <<"a", "/", "a">>>>

(***************************************************************************)
(* C35 as stated: after any sequence of setActiveGroup calls, deletions of *)
(* groups and reloads of the registry, activeGroupId is undefined or the   *)
(* id of a group of the in-memory group list.                              *)
(***************************************************************************)
C35_ActiveGroupIsPresent ==
    activeGroupId = None \/ activeGroupId \in GroupIdsOf(groups)

\* The context values that present a group as the active group
ActiveMarks == {"groupActive", "groupMismatchActive"}

\* The group nodes getParent gives for the children of the group nodes
ParentsOfTopNodes ==
    UNION {{GetParent(GetChildren(RootChildren[i], dirCache).nodes[j]) :
              j \in 1..Len(GetChildren(RootChildren[i], dirCache).nodes)} :
           i \in 1..Len(RootChildren)}

(***************************************************************************)
(* C36 as stated: while the active-group feature is disabled, no group     *)
(* node that getChildren or getParent gives is presented as active, also   *)
(* at start-up when an earlier session persisted an active group id.       *)
(***************************************************************************)
C36_NoActiveMarkWhileDisabled ==
    ~activeBehaviorEnabled =>
       /\ \A i \in 1..Len(RootChildren) : RootChildren[i].contextValue \notin ActiveMarks
       /\ \A n \in ParentsOfTopNodes : n.contextValue \notin ActiveMarks
(***************************************************************************)
(* C37: once dispose() has been called, no tree-changed signal fires (the  *)
(* refresh timer does not fire and no run of refresh() reaches its fire),  *)
(* and when every run of refresh() has ended and every timer has fired, no *)
(* watcher of the provider is alive; also when dispose() is called with a  *)
(* run of refresh() under way or the refresh timer armed.                  *)
(***************************************************************************)
\* The callback of a refresh timer runs: _onDidChangeTreeData.fire()
TimerSignals == 0 \in pendingRefresh /\ pendingRefresh' = pendingRefresh \ {0}

\* A run of refresh() reaches its end: resetFsWatchers() and fire()
ReloadSignals == Len(reloads') < Len(reloads)

\* No run of refresh() is under way and no timer is armed
Settled == reloads = <<>> /\ pendingRefresh = {} /\ inflight = {}

C37_DisposeStopsTheProvider ==
    [][/\ disposed => ~TimerSignals /\ ~ReloadSignals
       /\ (disposed' /\ Settled') => watchers' = <<>>]_vars

(***************************************************************************)
(* C38: if the watcher events stop, the timer that the last of them armed  *)
(* fires the tree-changed signal: an armed refresh timer is followed by    *)
(* its firing, also when a reload has replaced the watchers meanwhile.     *)
(***************************************************************************)
\* A watcher reports an event and its onChange arms the refresh timer
WatcherEvent ==
    /\ MatchingWatchers(watchers, <<"a", "/", "a">>) > 0
    /\ refreshTimer' = ArmedTimer(DebounceDelay)
    /\ pendingRefresh' # pendingRefresh \/ burst' # burst

C38_SignalFollowsTheLastEvent ==
    <>[][~WatcherEvent]_vars => ((refreshTimer.state = "armed") ~> (refreshTimer.state = "fired"))

\* A reload has taken the watchers away while the timer of an event is armed
C38_Witness ==
    /\ refreshTimer.state = "armed"
    /\ watchers = <<>>
    /\ reloads = <<>>

(***************************************************************************)
(* C39: a drop that writes the document writes a permutation of the list   *)
(* it loaded: the dragged groups stand together, in the order they had,    *)
(* right before the target, or at the end when there is no target or the   *)
(* target is dragged; the other groups keep their order and no group is    *)
(* lost or written twice.                                                  *)
(***************************************************************************)
Occurrences(gs, g) == Cardinality({i \in 1..Len(gs) : gs[i] = g})

IsPermutation(a, b) ==
    /\ Len(a) = Len(b)
    /\ \A g \in Range(a) \cup Range(b) : Occurrences(a, g) = Occurrences(b, g)

\* The dragged groups of the list that the last drop loaded, and the others
DroppedGroups == FilterDragged(lastOp.before, lastOp.arg[1], TRUE)
StayingGroups == FilterDragged(lastOp.before, lastOp.arg[1], FALSE)

\* The dragged groups stand at the places k .. k + n - 1 of the written list
DraggedStandAt(k) ==
    /\ k >= 1
    /\ k + Len(DroppedGroups) - 1 <= Len(lastOp.after)
    /\ SubSeq(lastOp.after, k, k + Len(DroppedGroups) - 1) = DroppedGroups
    /\ IF lastOp.gid # None /\ lastOp.gid \in GroupIdsOf(StayingGroups)
       THEN /\ k + Len(DroppedGroups) <= Len(lastOp.after)
            /\ lastOp.after[k + Len(DroppedGroups)].id = lastOp.gid
            /\ \A j \in 1..(k - 1) : lastOp.after[j].id # lastOp.gid
       ELSE k + Len(DroppedGroups) - 1 = Len(lastOp.after)

C39_DropPermutesTheGroups ==
    lastOp.kind = "handleDrop" =>
        IF lastOp.wrote
        THEN /\ IsPermutation(lastOp.after, lastOp.before)
             /\ DroppedGroups # <<>>
             /\ \E k \in 1..Len(lastOp.after) : DraggedStandAt(k)
             /\ FilterDragged(lastOp.after, lastOp.arg[1], FALSE) = StayingGroups
             /\ doc = lastOp.after
        ELSE /\ lastOp.after = lastOp.before
             /\ doc = lastOp.docBefore

\* Two groups were dropped before a target that is not the first group, and
\* the list changed
C39_Witness ==
    /\ lastOp.kind = "handleDrop"
    /\ lastOp.wrote
    /\ Len(DroppedGroups) = 2
    /\ lastOp.gid # None
    /\ lastOp.gid \in GroupIdsOf(StayingGroups)
    /\ lastOp.after # lastOp.before
    /\ lastOp.after[1].id # DroppedGroups[1].id

(***************************************************************************)
(* C40: of two selections of the same group node that follow each other    *)
(* less than 300 ms apart, exactly one invokes renameGroup, whatever the   *)
(* clicks before them and their reset timers did; a selection that follows *)
(* the one before it by 300 ms or more, or is on another group, invokes    *)
(* none.                                                                   *)
(***************************************************************************)
C40_DoubleClickRenamesOnce ==
    clickLog.n >= 2 =>
        IF clickLog.id = clickLog.prevId /\ clickLog.gap < DoubleClickWindow
        THEN clickLog.renamed # clickLog.prevRenamed
        ELSE ~clickLog.renamed

\* The half of the claim that holds: no rename for selections 300 ms or more
\* apart or on different groups
C40_NoRenameOutsideTheWindow ==
    (clickLog.n >= 2 /\ (clickLog.id # clickLog.prevId \/ clickLog.gap >= DoubleClickWindow))
        => ~clickLog.renamed

====
